---------------------------- MODULE Spec2Model ----------------------------
(***************************************************************************)
(* A model of the educational Bitcoin node: the byte-level codecs, the      *)
(* block store and UTXO store driven by the CLI `init` and `mine`           *)
(* commands, compact-target decoding, the CPU and GPU nonce search, and     *)
(* the wallet's transaction builder.                                        *)
(*                                                                          *)
(* Conventions.                                                             *)
(*  - A byte string (Vec<u8>, &[u8], [u8; N]) is a sequence over 0..255.    *)
(*  - TLC integers are 32-bit signed, so a u32 is carried as the 32-bit     *)
(*    two's-complement integer with the same bit pattern: 0xFFFFFFFF is -1. *)
(*    Every u32 the model computes with (heights, counts, timestamps) stays *)
(*    below 2^31, where the two readings agree.                             *)
(*  - A u64 is the record [hi, lo] of its two u32 halves.                   *)
(*  - A reader (std::io::Cursor) is a byte string and a 0-based position;   *)
(*    a read returns [ok, val, pos]: ok = FALSE is the Err result.          *)
(***************************************************************************)
EXTENDS Integers, Sequences, FiniteSets, TLC

VARIABLES
    blockchain,       \* Storage.blockchain: the sled tree of BlockchainDB, key |-> value
    utxo_set,         \* Storage.utxo_set: the sled tree of UtxoSet, key |-> value
    oracle,           \* the preimages hash256 has been applied to (see hash256)
    keystore,         \* CliHandler.keystore: [keys, default_address]
    cmd,              \* the CLI command in progress (CliHandler::handle)
    stored,           \* history: the <<height, block>> pairs the commands stored
    api,              \* a client of BlockchainDB: its call in progress and what it read
    codec,            \* Block::serialize / Block::deserialize on one block
    target,           \* Target::to_hash256 on one bits value
    mining,           \* the header being mined: its nonce, and header.hash() per nonce
    miner,            \* Miner::mine on one header
    gpu,              \* GpuMiner::mine on one header
    wallet,           \* TransactionBuilder::build and the validation of its result
    call,             \* one call of a function on sample arguments, and what it returned
    shader,           \* one dispatch of the mining shader: its workers and the result buffer
    durable,          \* what of the two sled trees is on disk, and whether the process crashed
    net               \* two nodes, their peer tasks and the TCP streams between them

cliVars == <<blockchain, utxo_set, oracle, keystore, cmd, stored>>
vars ==
    <<blockchain, utxo_set, oracle, keystore, cmd, stored, api, codec, target, mining,
      miner, gpu, wallet, call, shader, durable, net>>

\* what the actions of one specification leave alone
laterVars == <<shader, durable, net>>
restOfCli == <<api, codec, target, mining, miner, gpu, wallet, call, laterVars>>
restOfCodec == <<cliVars, api, target, mining, miner, gpu, wallet, call, laterVars>>
restOfDb ==
    <<utxo_set, keystore, cmd, stored, codec, target, mining, miner, gpu, wallet, call,
      laterVars>>
restOfTarget == <<cliVars, api, codec, mining, miner, gpu, wallet, call, laterVars>>
restOfPow == <<cliVars, api, codec, target, wallet, call, laterVars>>
restOfCall == <<cliVars, api, codec, target, mining, miner, gpu, wallet, laterVars>>

---------------------------------------------------------------------------
(* Byte strings and fixed-width integers                                    *)

Byte == 0..255

Repeat(b, n) == [i \in 1..n |-> b]

RECURSIVE Concat(_)
Concat(ss) == IF ss = <<>> THEN <<>> ELSE Head(ss) \o Concat(Tail(ss))

\* u32::to_le_bytes
ToLe32(n) ==
    << n % 256, (n \div 256) % 256, (n \div 65536) % 256, (n \div 16777216) % 256 >>

\* u32::from_le_bytes (the top byte carries the sign of the two's-complement reading)
FromLe32(b) ==
    b[1] + 256 * b[2] + 65536 * b[3]
      + 16777216 * (IF b[4] >= 128 THEN b[4] - 256 ELSE b[4])

\* u16::to_le_bytes / u16::from_le_bytes
ToLe16(n) == << n % 256, (n \div 256) % 256 >>
FromLe16(b) == b[1] + 256 * b[2]

\* u64 values
U64(n) == [hi |-> 0, lo |-> n]
ToLe64(v) == ToLe32(v.lo) \o ToLe32(v.hi)
FromLe64(b) == [hi |-> FromLe32(SubSeq(b, 5, 8)), lo |-> FromLe32(SubSeq(b, 1, 4))]

U32Max == -1

\* Read::read_exact on a Cursor: n bytes from position pos, or Err at a short read
ReadExact(data, pos, n) ==
    IF pos + n <= Len(data)
    THEN [ok |-> TRUE, val |-> SubSeq(data, pos + 1, pos + n), pos |-> pos + n]
    ELSE [ok |-> FALSE, val |-> <<>>, pos |-> pos]

\* Read::read_to_end on a Cursor: everything from pos on; a position past the end
\* reads nothing and stays where it is
ReadToEnd(data, pos) ==
    IF pos >= Len(data)
    THEN [ok |-> TRUE, val |-> <<>>, pos |-> pos]
    ELSE [ok |-> TRUE, val |-> SubSeq(data, pos + 1, Len(data)), pos |-> Len(data)]

Fail(pos) == [ok |-> FALSE, val |-> <<>>, pos |-> pos]

Ok(val, pos) == [ok |-> TRUE, val |-> val, pos |-> pos]

\* the `?` operator on a read: an Err is returned at once, an Ok value and the
\* cursor position after it are handed on
Try(r, F(_, _)) == IF r.ok THEN F(r.val, r.pos) ELSE Fail(0)

---------------------------------------------------------------------------
(* core/serialize.rs                                                        *)

\* write_varint that always writes the nine-byte form
write_varint_nine_bytes(value) == << 255 >> \o ToLe64(value)

\* write_varint(value: u64): the shortest of the four forms
write_varint(value) ==
    IF value.hi = 0 /\ value.lo >= 0 /\ value.lo <= 252
    THEN << value.lo >>
    ELSE IF value.hi = 0 /\ value.lo >= 0 /\ value.lo <= 65535
    THEN << 253 >> \o ToLe16(value.lo)
    ELSE IF value.hi = 0
    THEN << 254 >> \o ToLe32(value.lo)
    ELSE << 255 >> \o ToLe64(value)

\* read_varint: the tag byte, then 0, 2, 4 or 8 bytes
read_varint(data, pos) ==
    Try(ReadExact(data, pos, 1), LAMBDA first, p1 :
      IF first[1] <= 252 THEN Ok(U64(first[1]), p1)
      ELSE IF first[1] = 253
      THEN Try(ReadExact(data, p1, 2), LAMBDA bytes, p2 : Ok(U64(FromLe16(bytes)), p2))
      ELSE IF first[1] = 254
      THEN Try(ReadExact(data, p1, 4), LAMBDA bytes, p2 :
             Ok([hi |-> 0, lo |-> FromLe32(bytes)], p2))
      ELSE Try(ReadExact(data, p1, 8), LAMBDA bytes, p2 : Ok(FromLe64(bytes), p2)))

\* `as usize` of a decoded count (64-bit usize); the model's counts fit in lo
AsUsize(v) == v.lo

\* write_var_bytes that writes the length as one byte
write_var_bytes_short_length(bytes) == << Len(bytes) % 256 >> \o bytes

\* write_var_bytes / read_var_bytes
write_var_bytes(bytes) == write_varint(U64(Len(bytes))) \o bytes

read_var_bytes(data, pos) ==
    Try(read_varint(data, pos), LAMBDA len, p : ReadExact(data, p, AsUsize(len)))

---------------------------------------------------------------------------
(* core/types.rs, core/transaction.rs                                       *)

Hash256Zero == Repeat(0, 32)

TxInput_new(prev_tx_hash, prev_index, script_sig) ==
    [prev_tx_hash |-> prev_tx_hash, prev_index |-> prev_index,
     script_sig |-> script_sig, sequence |-> U32Max]

\* the height argument is unused by the code (`_height`)
TxInput_coinbase(script_sig, height) ==
    [prev_tx_hash |-> Hash256Zero, prev_index |-> U32Max,
     script_sig |-> script_sig, sequence |-> U32Max]

TxInput_is_coinbase(input) ==
    input.prev_tx_hash = Hash256Zero /\ input.prev_index = U32Max

TxInput_serialize(input) ==
    input.prev_tx_hash \o ToLe32(input.prev_index)
      \o write_var_bytes(input.script_sig) \o ToLe32(input.sequence)

TxInput_deserialize(data, pos) ==
    Try(ReadExact(data, pos, 32), LAMBDA hash_bytes, p1 :
    Try(ReadExact(data, p1, 4), LAMBDA index_bytes, p2 :
    Try(read_var_bytes(data, p2), LAMBDA script_sig, p3 :
    Try(ReadExact(data, p3, 4), LAMBDA sequence_bytes, p4 :
      Ok([prev_tx_hash |-> hash_bytes, prev_index |-> FromLe32(index_bytes),
          script_sig |-> script_sig, sequence |-> FromLe32(sequence_bytes)], p4)))))

TxOutput_new(value, script_pubkey) == [value |-> value, script_pubkey |-> script_pubkey]

TxOutput_serialize(output) ==
    ToLe64(output.value) \o write_var_bytes(output.script_pubkey)

TxOutput_deserialize(data, pos) ==
    Try(ReadExact(data, pos, 8), LAMBDA value_bytes, p1 :
    Try(read_var_bytes(data, p1), LAMBDA script_pubkey, p2 :
      Ok([value |-> FromLe64(value_bytes), script_pubkey |-> script_pubkey], p2)))

Transaction_new(inputs, outputs) ==
    [version |-> 1, inputs |-> inputs, outputs |-> outputs, lock_time |-> 0]

Transaction_coinbase(script_sig, output, height) ==
    [version |-> 1, inputs |-> << TxInput_coinbase(script_sig, height) >>,
     outputs |-> << output >>, lock_time |-> 0]

\* an is_coinbase that looks for a coinbase input among the inputs
Transaction_has_coinbase_input(tx) ==
    \E i \in 1..Len(tx.inputs) : TxInput_is_coinbase(tx.inputs[i])

Transaction_is_coinbase(tx) ==
    Len(tx.inputs) = 1 /\ TxInput_is_coinbase(tx.inputs[1])

Transaction_serialize(tx) ==
    ToLe32(tx.version)
      \o write_varint(U64(Len(tx.inputs)))
      \o Concat([i \in 1..Len(tx.inputs) |-> TxInput_serialize(tx.inputs[i])])
      \o write_varint(U64(Len(tx.outputs)))
      \o Concat([i \in 1..Len(tx.outputs) |-> TxOutput_serialize(tx.outputs[i])])
      \o ToLe32(tx.lock_time)

\* the `for _ in 0..input_count` loop of from_reader
RECURSIVE ReadInputs(_, _, _, _)
ReadInputs(data, pos, n, acc) ==
    IF n = 0 THEN Ok(acc, pos)
    ELSE Try(TxInput_deserialize(data, pos), LAMBDA input, p :
           ReadInputs(data, p, n - 1, Append(acc, input)))

\* the `for _ in 0..output_count` loop of from_reader
RECURSIVE ReadOutputs(_, _, _, _)
ReadOutputs(data, pos, n, acc) ==
    IF n = 0 THEN Ok(acc, pos)
    ELSE Try(TxOutput_deserialize(data, pos), LAMBDA output, p :
           ReadOutputs(data, p, n - 1, Append(acc, output)))

Transaction_from_reader(data, pos) ==
    Try(ReadExact(data, pos, 4), LAMBDA version_bytes, p1 :
    Try(read_varint(data, p1), LAMBDA input_count, p2 :
    Try(ReadInputs(data, p2, AsUsize(input_count), <<>>), LAMBDA inputs, p3 :
    Try(read_varint(data, p3), LAMBDA output_count, p4 :
    Try(ReadOutputs(data, p4, AsUsize(output_count), <<>>), LAMBDA outputs, p5 :
    Try(ReadExact(data, p5, 4), LAMBDA lock_time_bytes, p6 :
      Ok([version |-> FromLe32(version_bytes), inputs |-> inputs,
          outputs |-> outputs, lock_time |-> FromLe32(lock_time_bytes)], p6)))))))

\* Transaction::deserialize(data): a fresh cursor over data, trailing bytes ignored
Transaction_deserialize(data) == Transaction_from_reader(data, 0)

---------------------------------------------------------------------------
(* core/block.rs                                                            *)

BlockHeader_new(version, prev_block_hash, merkle_root, timestamp, bits, nonce) ==
    [version |-> version, prev_block_hash |-> prev_block_hash,
     merkle_root |-> merkle_root, timestamp |-> timestamp,
     bits |-> bits, nonce |-> nonce]

BlockHeader_serialize(h) ==
    ToLe32(h.version) \o h.prev_block_hash \o h.merkle_root
      \o ToLe32(h.timestamp) \o ToLe32(h.bits) \o ToLe32(h.nonce)

BlockHeader_deserialize(data) ==
    IF Len(data) < 80 THEN Fail(0)
    ELSE Ok([version |-> FromLe32(SubSeq(data, 1, 4)),
             prev_block_hash |-> SubSeq(data, 5, 36),
             merkle_root |-> SubSeq(data, 37, 68),
             timestamp |-> FromLe32(SubSeq(data, 69, 72)),
             bits |-> FromLe32(SubSeq(data, 73, 76)),
             nonce |-> FromLe32(SubSeq(data, 77, 80))], 80)

Block_new(header, transactions) == [header |-> header, transactions |-> transactions]

Block_serialize(b) ==
    BlockHeader_serialize(b.header)
      \o write_varint(U64(Len(b.transactions)))
      \o Concat([i \in 1..Len(b.transactions) |-> Transaction_serialize(b.transactions[i])])

\* where the decoder resumes after a transaction: the code adds the transaction's
\* length to the cursor position left by read_to_end
NextTxPosition(after_read_to_end, consumed) == after_read_to_end + consumed

\* the `for _ in 0..tx_count` loop of Block::deserialize
RECURSIVE ReadTransactions(_, _, _, _)
ReadTransactions(data, pos, n, acc) ==
    IF n = 0 THEN Ok(acc, pos)
    ELSE Try(ReadToEnd(data, pos), LAMBDA remaining, after_read_to_end :
         Try(Transaction_deserialize(remaining), LAMBDA tx, tx_end :
           ReadTransactions(data,
                            NextTxPosition(after_read_to_end, Len(Transaction_serialize(tx))),
                            n - 1, Append(acc, tx))))

Block_deserialize(data) ==
    Try(ReadExact(data, 0, 80), LAMBDA header_bytes, p1 :
    Try(BlockHeader_deserialize(header_bytes), LAMBDA header, header_end :
    Try(read_varint(data, p1), LAMBDA tx_count, p2 :
    Try(ReadTransactions(data, p2, AsUsize(tx_count), <<>>), LAMBDA transactions, p3 :
      Ok(Block_new(header, transactions), p3)))))

---------------------------------------------------------------------------
(* core/hash.rs: hash256 = SHA256(SHA256(data)).                            *)
(* SHA-256d is modelled as a collision-free random oracle: `oracle` lists   *)
(* the distinct preimages hashed so far, and the k-th of them has the       *)
(* digest whose first four bytes are k (little-endian) and whose other 28   *)
(* bytes are 0. No digest is the all-zero hash, and two preimages have the  *)
(* same digest only if they are equal. An action first interns every        *)
(* preimage it hashes and then reads the digests from the new table.        *)

Intern(o, data) ==
    IF \E i \in 1..Len(o) : o[i] = data THEN o ELSE Append(o, data)

hash256(o, data) ==
    LET k == CHOOSE i \in 1..Len(o) : o[i] = data IN ToLe32(k) \o Repeat(0, 28)

Transaction_txid(o, tx) == hash256(o, Transaction_serialize(tx))

BlockHeader_hash(o, header) == hash256(o, BlockHeader_serialize(header))

Block_hash(o, block) == BlockHeader_hash(o, block.header)

\* the txids of a transaction list, interning each serialization
RECURSIVE InternTxs(_, _)
InternTxs(o, txs) ==
    IF txs = <<>> THEN o
    ELSE InternTxs(Intern(o, Transaction_serialize(Head(txs))), Tail(txs))

\* a level of the Merkle tree that pairs the last hash of an odd level with the
\* zero hash
RECURSIVE MerkleLevelZeroPad(_, _, _)
MerkleLevelZeroPad(o, hashes, next_level) ==
    IF hashes = <<>> THEN [o |-> o, hashes |-> next_level]
    ELSE LET left == hashes[1]
             right == IF Len(hashes) >= 2 THEN hashes[2] ELSE Hash256Zero
             combined == left \o right
             o2 == Intern(o, combined)
         IN MerkleLevelZeroPad(o2, SubSeq(hashes, 3, Len(hashes)),
                               Append(next_level, hash256(o2, combined)))

\* one level of the Merkle tree: hashes.chunks(2), the last hash paired with itself
\* when the level is odd
RECURSIVE MerkleLevel(_, _, _)
MerkleLevel(o, hashes, next_level) ==
    IF hashes = <<>> THEN [o |-> o, hashes |-> next_level]
    ELSE LET left == hashes[1]
             right == IF Len(hashes) >= 2 THEN hashes[2] ELSE hashes[1]
             combined == left \o right
             o2 == Intern(o, combined)
         IN MerkleLevel(o2, SubSeq(hashes, 3, Len(hashes)),
                        Append(next_level, hash256(o2, combined)))

RECURSIVE MerkleReduce(_, _)
MerkleReduce(o, hashes) ==
    IF Len(hashes) <= 1 THEN [o |-> o, root |-> hashes[1]]
    ELSE LET lvl == MerkleLevel(o, hashes, <<>>) IN MerkleReduce(lvl.o, lvl.hashes)

\* Block::calculate_merkle_root: the root, and the oracle after the hashing
calculate_merkle_root(o, transactions) ==
    IF transactions = <<>> THEN [o |-> o, root |-> Hash256Zero]
    ELSE LET o1 == InternTxs(o, transactions)
             hashes == [i \in 1..Len(transactions) |-> Transaction_txid(o1, transactions[i])]
         IN MerkleReduce(o1, hashes)

---------------------------------------------------------------------------
(* storage/blockchain_db.rs: a sled tree is a function from keys to values  *)

DbEmpty == [k \in {} |-> <<>>]

DbInsert(db, key, value) ==
    [k \in (DOMAIN db) \cup {key} |-> IF k = key THEN value ELSE db[k]]

DbRemove(db, key) == [k \in (DOMAIN db) \ {key} |-> db[k]]

None == [ok |-> TRUE, some |-> FALSE, val |-> <<>>]
Some(v) == [ok |-> TRUE, some |-> TRUE, val |-> v]
Err == [ok |-> FALSE, some |-> FALSE, val |-> <<>>]

block_key(hash) == <<98>> \o hash            \* 'b' || hash

height_key(height) == <<104>> \o ToLe32(height)   \* 'h' || height_LE

TipKey == <<116, 105, 112>>                  \* b"tip"

HeightKey == <<104, 101, 105, 103, 104, 116>>    \* b"height"

store_block(o, db, block) ==
    DbInsert(db, block_key(Block_hash(o, block)), Block_serialize(block))

get_block(db, hash) ==
    IF block_key(hash) \notin DOMAIN db THEN None
    ELSE LET block == Block_deserialize(db[block_key(hash)]) IN
         IF block.ok THEN Some(block.val) ELSE Err

store_height(db, height, hash) == DbInsert(db, height_key(height), hash)

get_hash_by_height(db, height) ==
    IF height_key(height) \notin DOMAIN db THEN None
    ELSE LET data == db[height_key(height)] IN
         IF Len(data) # 32 THEN Err ELSE Some(data)

get_block_by_height(db, height) ==
    LET hash == get_hash_by_height(db, height) IN
    IF ~hash.ok THEN Err
    ELSE IF hash.some THEN get_block(db, hash.val) ELSE None

\* a store_tip that keeps a tip that is already there
store_tip_once(db, hash) == IF TipKey \in DOMAIN db THEN db ELSE DbInsert(db, TipKey, hash)

store_tip(db, hash) == DbInsert(db, TipKey, hash)

get_tip(db) ==
    IF TipKey \notin DOMAIN db THEN None
    ELSE IF Len(db[TipKey]) # 32 THEN Err ELSE Some(db[TipKey])

store_chain_height(db, height) == DbInsert(db, HeightKey, ToLe32(height))

\* Ok(height), Ok(0) when nothing is stored; Err when the value is not 4 bytes
get_chain_height(db) ==
    IF HeightKey \notin DOMAIN db THEN [ok |-> TRUE, val |-> 0]
    ELSE IF Len(db[HeightKey]) # 4 THEN [ok |-> FALSE, val |-> 0]
    ELSE [ok |-> TRUE, val |-> FromLe32(db[HeightKey])]

has_block(db, hash) == block_key(hash) \in DOMAIN db

---------------------------------------------------------------------------
(* storage/utxo_set.rs                                                      *)

OutPoint_new(txid, vout) == [txid |-> txid, vout |-> vout]

OutPoint_to_bytes(outpoint) == outpoint.txid \o ToLe32(outpoint.vout)

OutPoint_from_bytes(bytes) ==
    IF Len(bytes) # 36 THEN Err
    ELSE Some([txid |-> SubSeq(bytes, 1, 32), vout |-> FromLe32(SubSeq(bytes, 33, 36))])

Utxo_new(output, height, is_coinbase) ==
    [output |-> output, height |-> height, is_coinbase |-> is_coinbase]

Utxo_to_bytes(utxo) ==
    TxOutput_serialize(utxo.output) \o ToLe32(utxo.height)
      \o << IF utxo.is_coinbase THEN 1 ELSE 0 >>

Utxo_from_bytes(bytes) ==
    IF Len(bytes) < 13 THEN Err
    ELSE LET output == TxOutput_deserialize(SubSeq(bytes, 1, Len(bytes) - 5), 0)
             metadata_start == Len(bytes) - 5
         IN IF ~output.ok THEN Err
            ELSE Some([output |-> output.val,
                       height |-> FromLe32(SubSeq(bytes, metadata_start + 1,
                                                  metadata_start + 4)),
                       is_coinbase |-> bytes[Len(bytes)] # 0])

\* add_utxo: insert, then flush (the flush changes nothing a later read on the
\* handle sees); add_utxo_dropped is add_utxo with the insert left out
add_utxo_dropped(db, outpoint, utxo) == db

add_utxo(db, outpoint, utxo) ==
    DbInsert(db, OutPoint_to_bytes(outpoint), Utxo_to_bytes(utxo))

get_utxo(db, outpoint) ==
    IF OutPoint_to_bytes(outpoint) \notin DOMAIN db THEN None
    ELSE Utxo_from_bytes(db[OutPoint_to_bytes(outpoint)])

remove_utxo(db, outpoint) == DbRemove(db, OutPoint_to_bytes(outpoint))

has_utxo(db, outpoint) == OutPoint_to_bytes(outpoint) \in DOMAIN db

---------------------------------------------------------------------------
(* core/script.rs, wallet/keystore.rs                                       *)

\* OP_DUP OP_HASH160 PUSH20 <pubkey_hash> OP_EQUALVERIFY OP_CHECKSIG
p2pkh_script_pubkey(pubkey_hash) == <<118, 169, 20>> \o pubkey_hash \o <<136, 172>>

\* hex::decode of a string, given as its ASCII codes
HexVal(c) ==
    IF c >= 48 /\ c <= 57 THEN c - 48
    ELSE IF c >= 97 /\ c <= 102 THEN c - 87
    ELSE IF c >= 65 /\ c <= 70 THEN c - 55
    ELSE -1

hex_decode(str) ==
    IF Len(str) % 2 # 0 \/ \E i \in 1..Len(str) : HexVal(str[i]) < 0 THEN Err
    ELSE Some([i \in 1..(Len(str) \div 2) |->
                 16 * HexVal(str[2 * i - 1]) + HexVal(str[2 * i])])

\* Address::to_pubkey_hash
Address_to_pubkey_hash(address) ==
    LET bytes == hex_decode(address) IN
    IF ~bytes.ok THEN Err
    ELSE IF Len(bytes.val) # 20 THEN Err ELSE bytes

Keystore_new == [keys |-> {}, default_address |-> None]

\* a new_address that makes every new address the default
Keystore_new_address_default(ks, address) ==
    [keys |-> ks.keys \cup {address}, default_address |-> Some(address)]

\* Keystore::new_address, with the address of the generated key pair
Keystore_new_address(ks, address) ==
    [keys |-> ks.keys \cup {address},
     default_address |-> IF ~ks.default_address.some THEN Some(address)
                         ELSE ks.default_address]

\* Keystore::set_default: Ok with the new keystore, or Err and the keystore as it was
Keystore_set_default(ks, address) ==
    IF address \notin ks.keys THEN [ok |-> FALSE, ks |-> ks]
    ELSE [ok |-> TRUE, ks |-> [ks EXCEPT !.default_address = Some(address)]]

---------------------------------------------------------------------------
(* cli.rs: CliHandler. `init` and `wallet new-address` are single steps;    *)
(* `mine` is its loop, one step per iteration. The read-only commands       *)
(* (info, block get, wallet list / balance) change nothing and are left out.*)
(* The nonce search of an iteration is the subject of SpecPow; here its     *)
(* outcome is any nonce, or failure.                                        *)

MaxBlocks == 2         \* mined blocks the history may hold
MaxTime == 2           \* the clock reads 1..MaxTime
MaxCount == 1          \* `mine --count` is in 0..MaxCount (0: unlimited)
Nonces == {0, 1}       \* the nonces a successful search may return

Bits == 553648127      \* 0x20ffffff

BLOCK_REWARD == [hi |-> 1, lo |-> 705032704]     \* 50 * 100_000_000

GenesisCoinbaseSig ==
    << 84, 104, 101, 32, 84, 105, 109, 101, 115, 32, 48, 51, 47, 74, 97, 110, 47,
       50, 48, 48, 57, 32, 67, 104, 97, 110, 99, 101, 108, 108, 111, 114, 32, 111,
       110, 32, 98, 114, 105, 110, 107, 32, 111, 102, 32, 115, 101, 99, 111, 110,
       100, 32, 98, 97, 105, 108, 111, 117, 116, 32, 102, 111, 114, 32, 98, 97,
       110, 107, 115 >>

GenesisCoinbase ==
    Transaction_coinbase(GenesisCoinbaseSig, TxOutput_new(BLOCK_REWARD, <<>>), 0)

\* Block::genesis: the block, and the oracle after its Merkle root is computed
Block_genesis(o) ==
    LET mr == calculate_merkle_root(o, << GenesisCoinbase >>) IN
    [o |-> mr.o,
     block |-> Block_new(BlockHeader_new(1, Hash256Zero, mr.root, 1231006505, Bits, 2),
                         << GenesisCoinbase >>)]

\* format!("{}", n) as ASCII
RECURSIVE Decimal(_)
Decimal(n) == IF n < 10 THEN << 48 + n >> ELSE Decimal(n \div 10) \o << 48 + (n % 10) >>

\* format!("Block {}", new_height).into_bytes()
CoinbaseScript(new_height) == <<66, 108, 111, 99, 107, 32>> \o Decimal(new_height)

\* sample addresses: two well-formed (40 hex digits), one of 2 bytes, one not hex
AddrA == Repeat(97, 40)
AddrB == [i \in 1..40 |-> IF i % 2 = 1 THEN 49 ELSE 98]
AddrShort == <<97, 98, 99, 100>>
AddrNotHex == <<122, 122>>
KeyAddresses == {AddrA}                          \* generated by the keystore
CliAddresses == {AddrB, AddrShort, AddrNotHex}   \* given with `mine --address`

CmdIdle == [name |-> "idle", reward_addr |-> <<>>, count |-> 0, mined |-> 0]

\* the values of the variables a specification does not use
CmdOff == [name |-> "off", reward_addr |-> <<>>, count |-> 0, mined |-> 0]
KeystoreOff == Keystore_new
ApiOff == [pc |-> "off"]
CodecIdle == [pc |-> "off", blk |-> <<>>, data |-> <<>>, out |-> Fail(0)]
TargetOff == [pc |-> "off"]
MiningOff == [bits |-> 0, nonce |-> 0, hashes |-> <<>>]
MinerOff == [pc |-> "off"]
GpuOff == [pc |-> "off"]
WalletOff == [pc |-> "off"]
CallOff == [pc |-> "off"]
ShaderOff == [pc |-> "off"]
DurableOff == [pc |-> "off"]
NetOff == [pc |-> "off"]

LaterVarsOff == shader = ShaderOff /\ durable = DurableOff /\ net = NetOff

CliVarsOff ==
    /\ blockchain = DbEmpty /\ utxo_set = DbEmpty /\ oracle = <<>>
    /\ keystore = KeystoreOff /\ cmd = CmdOff /\ stored = {}

MiningVarsOff == mining = MiningOff /\ miner = MinerOff /\ gpu = GpuOff

PowVarsOff == target = TargetOff /\ MiningVarsOff

MinedBlocks == { p \in stored : p[1] > 0 }

\* CliHandler::init
CmdInit ==
    /\ cmd.name = "idle"
    /\ LET g == Block_genesis(oracle)
           genesis == g.block
           o == Intern(g.o, BlockHeader_serialize(genesis.header))
           hash == Block_hash(o, genesis)
           coinbase_tx == genesis.transactions[1]
           outpoint == OutPoint_new(Transaction_txid(o, coinbase_tx), 0)
           utxo == Utxo_new(coinbase_tx.outputs[1], 0, TRUE)
       IN /\ oracle' = o
          /\ blockchain' =
               store_chain_height(
                 store_tip(
                   store_height(store_block(o, blockchain, genesis), 0, hash),
                   hash),
                 1)
          /\ utxo_set' = add_utxo(utxo_set, outpoint, utxo)
          /\ stored' = stored \cup { <<0, genesis>> }
    /\ UNCHANGED <<keystore, cmd, restOfCli>>

\* CliHandler::handle_wallet, WalletCommands::NewAddress
CmdWalletNewAddress ==
    /\ cmd.name = "idle"
    /\ \E address \in KeyAddresses \ keystore.keys :
         keystore' = Keystore_new_address(keystore, address)
    /\ UNCHANGED <<blockchain, utxo_set, oracle, cmd, stored, restOfCli>>

\* CliHandler::mine up to the loop: the reward address is resolved once
CmdMineStart ==
    /\ cmd.name = "idle"
    /\ \E address \in {None} \cup { Some(a) : a \in CliAddresses }, count \in 0..MaxCount :
         LET reward_addr == IF address.some THEN address ELSE keystore.default_address
         IN cmd' = IF reward_addr.some
                   THEN [name |-> "mine", reward_addr |-> reward_addr.val,
                         count |-> count, mined |-> 0]
                   ELSE CmdIdle         \* Err("No default address ...")
    /\ UNCHANGED <<blockchain, utxo_set, oracle, keystore, stored, restOfCli>>

MineLoopRuns == cmd.name = "mine" /\ (cmd.count = 0 \/ cmd.mined < cmd.count)

\* the loop ends: `if !unlimited && mined >= count { break; }`
CmdMineDone ==
    /\ cmd.name = "mine" /\ ~MineLoopRuns
    /\ cmd' = CmdIdle
    /\ UNCHANGED <<blockchain, utxo_set, oracle, keystore, stored, restOfCli>>

\* an iteration that returns Err before anything is stored: the address is not
\* 20 hex-encoded bytes, there is no tip, or the search found no nonce
CmdMineIterErr ==
    /\ MineLoopRuns
    /\ \/ ~Address_to_pubkey_hash(cmd.reward_addr).ok
       \/ ~get_tip(blockchain).some
       \/ TRUE      \* !result.success
    /\ cmd' = CmdIdle
    /\ UNCHANGED <<blockchain, utxo_set, oracle, keystore, stored, restOfCli>>

\* the chain height left at the height of the mined block
NextChainHeightSame(new_height) == new_height

\* the chain height a mined block leaves: store_chain_height(new_height + 1)
NextChainHeight(new_height) == new_height + 1

\* an iteration that mines and stores a block
CmdMineIter ==
    /\ MineLoopRuns
    /\ Cardinality(MinedBlocks) < MaxBlocks
    /\ Address_to_pubkey_hash(cmd.reward_addr).ok
    /\ get_tip(blockchain).some
    /\ get_chain_height(blockchain).ok
    /\ \E timestamp \in 1..MaxTime, nonce \in Nonces :
         LET pubkey_hash == Address_to_pubkey_hash(cmd.reward_addr).val
             reward_script == p2pkh_script_pubkey(pubkey_hash)
             prev_hash == get_tip(blockchain).val
             new_height == get_chain_height(blockchain).val
             coinbase_tx == Transaction_coinbase(CoinbaseScript(new_height),
                                                 TxOutput_new(BLOCK_REWARD, reward_script),
                                                 new_height)
             mr == calculate_merkle_root(oracle, << coinbase_tx >>)
             header == BlockHeader_new(1, prev_hash, mr.root, timestamp, Bits, nonce)
             block == Block_new(header, << coinbase_tx >>)
             o == Intern(mr.o, BlockHeader_serialize(header))
             block_hash == Block_hash(o, block)
             outpoint == OutPoint_new(Transaction_txid(o, coinbase_tx), 0)
             utxo == Utxo_new(coinbase_tx.outputs[1], new_height, TRUE)
         IN /\ oracle' = o
            /\ blockchain' =
                 store_chain_height(
                   store_tip(
                     store_height(store_block(o, blockchain, block), new_height, block_hash),
                     block_hash),
                   NextChainHeight(new_height))
            /\ utxo_set' = add_utxo(utxo_set, outpoint, utxo)
            /\ stored' = stored \cup { <<new_height, block>> }
    /\ cmd' = [cmd EXCEPT !.mined = cmd.mined + 1]
    /\ UNCHANGED <<keystore, restOfCli>>

Init ==
    /\ blockchain = DbEmpty /\ utxo_set = DbEmpty /\ oracle = <<>>
    /\ keystore = Keystore_new /\ cmd = CmdIdle /\ stored = {}
    /\ api = ApiOff /\ codec = CodecIdle /\ PowVarsOff /\ wallet = WalletOff /\ call = CallOff /\ LaterVarsOff

Next ==
    \/ CmdInit
    \/ CmdWalletNewAddress
    \/ CmdMineStart
    \/ CmdMineIter
    \/ CmdMineIterErr
    \/ CmdMineDone

Spec == Init /\ [][Next]_vars

Idle == cmd.name = "idle"

\* the coinbase outpoint (txid, 0) of a block
CoinbaseOutPoint(block) == OutPoint_new(Transaction_txid(oracle, block.transactions[1]), 0)

\* the keys of the block store: 'b' followed by a 32-byte hash
BlockKeys == { k \in DOMAIN blockchain : Len(k) = 33 /\ k[1] = 98 }

\* C1: when no command is running, every block that some command stored at
\* height h is still the block the height index names at h, and get_block of
\* its hash returns it.
C1_HeightIndexStable ==
    Idle => \A p \in stored :
              /\ get_hash_by_height(blockchain, p[1]) = Some(Block_hash(oracle, p[2]))
              /\ get_block(blockchain, Block_hash(oracle, p[2])) = Some(p[2])

\* What does hold of the stored blocks: each stays retrievable by its hash.
C1_BlocksKept ==
    Idle => \A p \in stored :
              get_block(blockchain, Block_hash(oracle, p[2])) = Some(p[2])

\* C2: when no command is running, the tip is absent or one 32-byte hash; when
\* it exists the chain height is at least 1, the index entry at chain height - 1
\* is the tip, and no other height is indexed to the tip; when it is absent
\* the chain height is 0.
C2_TipAndChainHeight ==
    Idle =>
      LET tip == get_tip(blockchain)
          chain_height == get_chain_height(blockchain)
      IN /\ tip.ok /\ chain_height.ok
         /\ tip.some =>
              /\ chain_height.val >= 1
              /\ get_hash_by_height(blockchain, chain_height.val - 1) = tip
              /\ \A h \in 0..(MaxBlocks + 1) :
                   get_hash_by_height(blockchain, h) = tip => h = chain_height.val - 1
         /\ ~tip.some => chain_height.val = 0

\* a mined block is the tip, and the chain height is 1 + its height
C2_Witness ==
    /\ Idle
    /\ get_tip(blockchain).some
    /\ get_chain_height(blockchain).val >= 2
    /\ \E p \in stored : p[1] = get_chain_height(blockchain).val - 1
                            /\ Block_hash(oracle, p[2]) = get_tip(blockchain).val

\* C3: when no command is running, the outpoints of the UTXO store are exactly
\* the coinbase outpoints (txid, 0) of the blocks in the block store, and each
\* holds the coinbase output (value and script), the height the block was stored
\* at, and the coinbase flag.
C3_UtxoSetIsCoinbaseOutputs ==
    Idle =>
      /\ BlockKeys = { block_key(Block_hash(oracle, p[2])) : p \in stored }
      /\ DOMAIN utxo_set = { OutPoint_to_bytes(CoinbaseOutPoint(p[2])) : p \in stored }
      /\ \A p \in stored :
           get_utxo(utxo_set, CoinbaseOutPoint(p[2]))
             = Some(Utxo_new(p[2].transactions[1].outputs[1], p[1], TRUE))

\* genesis and two mined blocks are stored, two of them with one coinbase
\* transaction, so that two outpoints are present
C3_Witness ==
    /\ Idle
    /\ Cardinality(stored) = 3
    /\ Cardinality(DOMAIN utxo_set) = 2
    /\ Cardinality(BlockKeys) = 3

\* the block indexed at height h, h >= 1, names the hash indexed at h - 1
LinkedTo(block, prev_hash) ==
    block.some /\ prev_hash.some /\ block.val.header.prev_block_hash = prev_hash.val

LinkedAt(h) ==
    LinkedTo(get_block_by_height(blockchain, h), get_hash_by_height(blockchain, h - 1))

\* the indexed chain below the chain height: genesis, and linked blocks
ChainLinked ==
    /\ get_chain_height(blockchain).ok
    /\ get_chain_height(blockchain).val >= 1
         => get_block_by_height(blockchain, 0) = Some(Block_genesis(oracle).block)
    /\ \A h \in 1..(get_chain_height(blockchain).val - 1) : LinkedAt(h)

\* a step that is a successful iteration of the loop of `mine`
MineIterationDone == cmd.name = "mine" /\ cmd'.name = "mine" /\ cmd'.mined = cmd.mined + 1

\* the iteration stored one block, at the chain height it found, on the tip it
\* found, and left the chain height one higher
OneBlockOnTip ==
    /\ get_chain_height(blockchain').val = get_chain_height(blockchain).val + 1
    /\ LinkedTo(get_block_by_height(blockchain', get_chain_height(blockchain).val),
                get_tip(blockchain))
    /\ get_hash_by_height(blockchain', get_chain_height(blockchain).val) = get_tip(blockchain')
    /\ { k \in DOMAIN blockchain' : Len(k) = 33 /\ k[1] = 98 }
         \subseteq BlockKeys \cup { block_key(get_tip(blockchain').val) }
    /\ \A h \in 0..(get_chain_height(blockchain).val - 1) :
         get_hash_by_height(blockchain', h) = get_hash_by_height(blockchain, h)

\* C26: between the steps of the commands the indexed chain below the chain
\* height is linked (height 0 is the genesis block, and the block indexed at
\* each height h >= 1 names the hash indexed at h - 1), and a successful
\* iteration of `mine` stores one block at the chain height it found, on the
\* tip it found, and raises the chain height by one.
C26_ChainLinked ==
    /\ [](cmd.name # "off" => ChainLinked)
    /\ [][MineIterationDone => OneBlockOnTip]_vars

\* a chain of the genesis block and two mined blocks
C26_Witness ==
    /\ Idle
    /\ get_chain_height(blockchain).val = 3
    /\ LinkedAt(1) /\ LinkedAt(2)
    /\ get_hash_by_height(blockchain, 1) # get_hash_by_height(blockchain, 0)
    /\ get_tip(blockchain) = get_hash_by_height(blockchain, 2)

---------------------------------------------------------------------------
(* Sample data for the codec and the block store API                        *)

MaxTxs == 2            \* longest transaction list of a sample block

HashA == Repeat(1, 32)
HashB == Repeat(2, 32)

TxCoinbase == Transaction_coinbase(<<4, 5, 6>>, TxOutput_new(U64(5000), <<1, 2, 3>>), 0)
TxSpend ==
    Transaction_new(<< TxInput_new(HashA, 0, <<>>) >>, << TxOutput_new(U64(1000), <<>>) >>)
TxTwoInputs ==
    Transaction_new(<< TxInput_new(HashA, 0, <<7>>), TxInput_new(HashB, 1, <<>>) >>,
                    << TxOutput_new(U64(300), <<8, 9>>),
                       TxOutput_new([hi |-> 1, lo |-> 705032704], <<>>) >>)
TxEmpty == Transaction_new(<<>>, <<>>)

TxSamples == { TxCoinbase, TxSpend, TxTwoInputs, TxEmpty }

HeaderA == BlockHeader_new(1, Hash256Zero, Hash256Zero, 1234567890, 486604799, 0)
HeaderB == BlockHeader_new(2, HashA, HashB, 1231006505, 553648127, U32Max)

HeaderSamples == { HeaderA, HeaderB }

TxLists == UNION { [1..n -> TxSamples] : n \in 0..MaxTxs }

CodecBlocks == { Block_new(h, txs) : h \in HeaderSamples, txs \in TxLists }

---------------------------------------------------------------------------
(* SpecCodec: Block::serialize followed by Block::deserialize               *)

CodecSerialize ==
    /\ codec.pc = "start"
    /\ codec' = [codec EXCEPT !.pc = "serialized", !.data = Block_serialize(codec.blk)]
    /\ UNCHANGED restOfCodec

CodecDeserialize ==
    /\ codec.pc = "serialized"
    /\ codec' = [codec EXCEPT !.pc = "done", !.out = Block_deserialize(codec.data)]
    /\ UNCHANGED restOfCodec

CodecInit ==
    /\ codec \in { [pc |-> "start", blk |-> b, data |-> <<>>, out |-> Fail(0)] :
                   b \in CodecBlocks }
    /\ CliVarsOff /\ api = ApiOff /\ PowVarsOff /\ wallet = WalletOff /\ call = CallOff /\ LaterVarsOff

CodecNext == CodecSerialize \/ CodecDeserialize

SpecCodec == CodecInit /\ [][CodecNext]_vars

\* C5: for every block b, with zero, one, or two or more transactions,
\* Block::deserialize(Block::serialize(b)) returns Ok(b).
C5_BlockRoundTrip ==
    codec.pc = "done" => codec.out.ok /\ codec.out.val = codec.blk

\* The decoder does return Ok(b) for the blocks of at most one transaction.
C5_RoundTripUpToOneTx ==
    (codec.pc = "done" /\ Len(codec.blk.transactions) <= 1)
        => codec.out.ok /\ codec.out.val = codec.blk

---------------------------------------------------------------------------
(* SpecDb: one BlockchainDB handle on which a caller runs, MaxRounds times,  *)
(* store_block(b), store_height(h, b.hash()), store_tip(b.hash()) and then   *)
(* get_block(b.hash()), get_block_by_height(h) and get_tip().                *)

MaxRounds == 2

DbBlocks ==
    { Block_new(HeaderA, <<>>),
      Block_new(HeaderA, << TxCoinbase >>),
      Block_new(HeaderB, << TxCoinbase >>),
      Block_new(HeaderA, << TxCoinbase, TxSpend >>),
      Block_new(HeaderB, << TxCoinbase, TxTwoInputs, TxSpend >>) }

DbHeights == { 0, 1, U32Max }

NoResults == [get_block |-> None, get_block_by_height |-> None, get_tip |-> None]

ApiIdle == [pc |-> "idle", b |-> <<>>, h |-> 0, round |-> 0, results |-> NoResults]

ApiStoreBlock ==
    /\ api.pc \in {"idle", "read"}
    /\ api.round < MaxRounds
    /\ \E b \in DbBlocks, h \in DbHeights :
         /\ oracle' = Intern(oracle, BlockHeader_serialize(b.header))
         /\ blockchain' = store_block(oracle', blockchain, b)
         /\ api' = [pc |-> "stored_block", b |-> b, h |-> h,
                    round |-> api.round + 1, results |-> NoResults]
    /\ UNCHANGED restOfDb

ApiStoreHeight ==
    /\ api.pc = "stored_block"
    /\ blockchain' = store_height(blockchain, api.h, Block_hash(oracle, api.b))
    /\ api' = [api EXCEPT !.pc = "stored_height"]
    /\ UNCHANGED <<oracle, restOfDb>>

ApiStoreTip ==
    /\ api.pc = "stored_height"
    /\ blockchain' = store_tip(blockchain, Block_hash(oracle, api.b))
    /\ api' = [api EXCEPT !.pc = "stored_tip"]
    /\ UNCHANGED <<oracle, restOfDb>>

ApiRead ==
    /\ api.pc = "stored_tip"
    /\ api' = [api EXCEPT
                 !.pc = "read",
                 !.results = [get_block |-> get_block(blockchain, Block_hash(oracle, api.b)),
                              get_block_by_height |-> get_block_by_height(blockchain, api.h),
                              get_tip |-> get_tip(blockchain)]]
    /\ UNCHANGED <<blockchain, oracle, restOfDb>>

DbInit ==
    /\ blockchain = DbEmpty /\ oracle = <<>> /\ api = ApiIdle
    /\ utxo_set = DbEmpty /\ keystore = KeystoreOff /\ cmd = CmdOff /\ stored = {}
    /\ codec = CodecIdle /\ PowVarsOff /\ wallet = WalletOff /\ call = CallOff /\ LaterVarsOff

DbNext == ApiStoreBlock \/ ApiStoreHeight \/ ApiStoreTip \/ ApiRead

SpecDb == DbInit /\ [][DbNext]_vars

\* C4: for every block b and height h, the reads that follow store_block(b),
\* store_height(h, b.hash()) and store_tip(b.hash()) return Some(b) from
\* get_block(b.hash()), Some(b) from get_block_by_height(h) and Some(b.hash())
\* from get_tip().
C4_StoreThenGet ==
    api.pc = "read" =>
      /\ api.results.get_block = Some(api.b)
      /\ api.results.get_block_by_height = Some(api.b)
      /\ api.results.get_tip = Some(Block_hash(oracle, api.b))

\* The reads do return the block when it has at most one transaction, and the
\* tip is right for every block.
C4_StoreThenGetUpToOneTx ==
    api.pc = "read" =>
      /\ api.results.get_tip = Some(Block_hash(oracle, api.b))
      /\ Len(api.b.transactions) <= 1 =>
           /\ api.results.get_block = Some(api.b)
           /\ api.results.get_block_by_height = Some(api.b)

---------------------------------------------------------------------------
(* consensus/pow.rs: Target                                                 *)

\* exponent = bits >> 24 and coefficient = bits & 0x00ffffff of the u32 bits
Exponent(bits) == (bits \div 16777216) % 256
Coefficient(bits) == bits % 16777216

\* a 32-byte array that is zero except for three bytes from index `offset`
\* (0-based) on
ThreeBytesAt(offset, b0, b1, b2) ==
    [i \in 1..32 |-> IF i = offset + 1 THEN b0
                     ELSE IF i = offset + 2 THEN b1
                     ELSE IF i = offset + 3 THEN b2
                     ELSE 0]

\* value >> (8 * n) for n in 0..3
ShiftRightBytes(value, n) ==
    IF n = 0 THEN value
    ELSE IF n = 1 THEN value \div 256
    ELSE IF n = 2 THEN value \div 65536
    ELSE value \div 16777216

\* Target::to_hash256
Target_to_hash256(bits) ==
    IF Exponent(bits) <= 3
    THEN ThreeBytesAt(29,
                      ShiftRightBytes(Coefficient(bits), 3 - Exponent(bits)) % 256,
                      (ShiftRightBytes(Coefficient(bits), 3 - Exponent(bits)) \div 256) % 256,
                      (ShiftRightBytes(Coefficient(bits), 3 - Exponent(bits)) \div 65536) % 256)
    ELSE IF Exponent(bits) - 3 <= 29
    THEN ThreeBytesAt(32 - (Exponent(bits) - 3) - 3,
                      Coefficient(bits) % 256,
                      (Coefficient(bits) \div 256) % 256,
                      (Coefficient(bits) \div 65536) % 256)
    ELSE Repeat(0, 32)

\* the byte loop of Target::is_valid_hash, from index i (1-based) on
RECURSIVE TargetCompare(_, _, _)
TargetCompare(hash, target_bytes, i) ==
    IF i > 32 THEN FALSE
    ELSE IF hash[i] < target_bytes[i] THEN TRUE
    ELSE IF hash[i] > target_bytes[i] THEN FALSE
    ELSE TargetCompare(hash, target_bytes, i + 1)

\* is_valid_hash that reads the hash and the target least significant byte first
Target_is_valid_hash_from_the_end(bits, hash) ==
    \E i \in 1..32 :
      /\ hash[i] < Target_to_hash256(bits)[i]
      /\ \A j \in (i + 1)..32 : hash[j] = Target_to_hash256(bits)[j]

\* Target::is_valid_hash
Target_is_valid_hash(bits, hash) == TargetCompare(hash, Target_to_hash256(bits), 1)

---------------------------------------------------------------------------
(* SpecTarget: Target::from_bits(bits).to_hash256() for sample bits          *)

MaxExponent == 34      \* the sample exponents are 0..MaxExponent, and 255

CoefficientSamples == { 1, 65535, 1193046, 8388607, 16777215 }
    \* 0x000001, 0x00ffff, 0x123456, 0x7fffff, 0xffffff

\* bits as a u32 in two's complement: exponents of 128 and more are negative
BitsOf(exponent, coefficient) ==
    IF exponent >= 128 THEN (exponent - 256) * 16777216 + coefficient
    ELSE exponent * 16777216 + coefficient

BitsSamples ==
    { BitsOf(e, c) : e \in (0..MaxExponent) \cup {255}, c \in CoefficientSamples }

TargetDecode ==
    /\ target.pc = "start"
    /\ target' = [target EXCEPT !.pc = "done", !.hash = Target_to_hash256(target.bits)]
    /\ UNCHANGED restOfTarget

TargetInit ==
    /\ target \in { [pc |-> "start", bits |-> b, hash |-> <<>>] : b \in BitsSamples }
    /\ CliVarsOff /\ api = ApiOff /\ codec = CodecIdle
    /\ MiningVarsOff /\ wallet = WalletOff /\ call = CallOff /\ LaterVarsOff

TargetNext == TargetDecode

SpecTarget == TargetInit /\ [][TargetNext]_vars

\* where the three bytes go (0-based): 29 for exponents 0..3, else
\* 32-(exponent-3)-3
WindowOffset(bits) == IF Exponent(bits) <= 3 THEN 29 ELSE 32 - (Exponent(bits) - 3) - 3

\* the three-byte value: coefficient >> (8*(3-exponent)) for exponents 0..3, else
\* the coefficient
WindowValue(bits) ==
    IF Exponent(bits) <= 3 THEN ShiftRightBytes(Coefficient(bits), 3 - Exponent(bits))
    ELSE Coefficient(bits)

\* byte i (1-based, most significant first) of the 32-byte big-endian target
BigEndianByte(bits, i) ==
    IF i = WindowOffset(bits) + 1 THEN (WindowValue(bits) \div 65536) % 256
    ELSE IF i = WindowOffset(bits) + 2 THEN (WindowValue(bits) \div 256) % 256
    ELSE IF i = WindowOffset(bits) + 3 THEN WindowValue(bits) % 256
    ELSE 0

\* C6: for every bits with exponent at most 32, to_hash256 is the 32-byte
\* big-endian representation of the target: the three coefficient bytes, most
\* significant first, at offset 32-(exponent-3)-3 for exponents 4..32, and the
\* shifted coefficient in the last three bytes, most significant first, for
\* exponents 0..3.
C6_TargetIsBigEndian ==
    (target.pc = "done" /\ Exponent(target.bits) <= 32)
        => target.hash = [i \in 1..32 |-> BigEndianByte(target.bits, i)]

\* What the code does: the three bytes are at the stated offset, least
\* significant first.
C6_TargetBytesReversed ==
    (target.pc = "done" /\ Exponent(target.bits) <= 32)
        => \A i \in 1..32 :
             target.hash[i] =
               IF i = WindowOffset(target.bits) + 1
               THEN BigEndianByte(target.bits, i + 2)
               ELSE IF i = WindowOffset(target.bits) + 3
               THEN BigEndianByte(target.bits, i - 2)
               ELSE BigEndianByte(target.bits, i)

---------------------------------------------------------------------------
(* consensus/pow.rs: Miner. header.hash() of the header with a given nonce  *)
(* is whatever SHA-256d gives for its 80 bytes: the model draws it from      *)
(* HashChoices when that nonce is first hashed and keeps it in mining.hashes *)
(* (a function nonce |-> hash), so that hashing the same header again gives  *)
(* the same hash. Nonces are NonceBits wide instead of 32.                   *)

NonceBits == 2
NonceMax == 2^NonceBits - 1          \* u32::MAX

\* Miner::new
Miner_new(bits) == [bits |-> bits, target_hash |-> Target_to_hash256(bits)]

\* the byte loop of Miner::is_valid_hash_fast, from index i (1-based) on
RECURSIVE FastCompare(_, _, _)
FastCompare(hash, target_hash, i) ==
    IF i > 32 THEN FALSE
    ELSE IF hash[i] < target_hash[i] THEN TRUE
    ELSE IF hash[i] > target_hash[i] THEN FALSE
    ELSE FastCompare(hash, target_hash, i + 1)

\* is_valid_hash_fast that also accepts a hash equal to the target
Miner_is_valid_hash_or_equal(self, hash) ==
    hash = self.target_hash \/ FastCompare(hash, self.target_hash, 1)

\* Miner::is_valid_hash_fast
Miner_is_valid_hash_fast(self, hash) == FastCompare(hash, self.target_hash, 1)

\* Miner::verify, on the header as it is
Miner_verify(self) == Target_is_valid_hash(self.bits, mining.hashes[mining.nonce])

\* sample hashes: below every non-zero target, the target itself, above every target
HashChoices(bits) == { Hash256Zero, Target_to_hash256(bits), Repeat(255, 32) }

\* header.hash() when header.nonce = nonce
HeaderHashes(nonce) ==
    IF nonce \in DOMAIN mining.hashes THEN { mining.hashes[nonce] }
    ELSE HashChoices(mining.bits)

\* header.nonce = nonce; let hash = header.hash();
SetNonceAndHash(nonce, hash) ==
    [mining EXCEPT !.nonce = nonce, !.hashes = DbInsert(mining.hashes, nonce, hash)]

MiningResult(success, nonce, hash, attempts) ==
    [success |-> success, nonce |-> nonce, hash |-> hash, attempts |-> attempts]

NoResult == MiningResult(FALSE, 0, <<>>, 0)

\* Miner::mine entered: the miner, the loop variable and the attempts counter
MinerLoop(bits) ==
    [pc |-> "loop", self |-> Miner_new(bits), nonce |-> 0, attempts |-> 0,
     result |-> NoResult]

\* one iteration of `for nonce in 0..=u32::MAX`
MineStep ==
    /\ miner.pc = "loop"
    /\ miner.nonce <= NonceMax
    /\ \E hash \in HeaderHashes(miner.nonce) :
         /\ mining' = SetNonceAndHash(miner.nonce, hash)
         /\ miner' =
              IF Miner_is_valid_hash_fast(miner.self, hash)
              THEN [miner EXCEPT
                      !.pc = "done", !.attempts = @ + 1,
                      !.result = MiningResult(TRUE, miner.nonce, hash, miner.attempts + 1)]
              ELSE [miner EXCEPT !.nonce = @ + 1, !.attempts = @ + 1]
    /\ UNCHANGED <<gpu, restOfPow>>

\* the loop ran through every nonce
MineExhausted ==
    /\ miner.pc = "loop"
    /\ miner.nonce > NonceMax
    /\ miner' = [miner EXCEPT
                   !.pc = "done",
                   !.result = MiningResult(FALSE, 0, Hash256Zero, miner.attempts)]
    /\ UNCHANGED <<mining, gpu, restOfPow>>

---------------------------------------------------------------------------
(* SpecPow: Miner::new(bits).mine(&mut header)                              *)

\* 0x20ffffff, 0x1d00ffff, and 0x2100ffff, whose target is zero
MinerBits == { 553648127, 486604799, 553713663 }

PowInit ==
    /\ \E bits \in MinerBits, nonce \in {0, NonceMax} :
         /\ mining = [bits |-> bits, nonce |-> nonce, hashes |-> <<>>]
         /\ miner = MinerLoop(bits)
    /\ gpu = GpuOff /\ target = TargetOff
    /\ CliVarsOff /\ api = ApiOff /\ codec = CodecIdle /\ wallet = WalletOff /\ call = CallOff /\ LaterVarsOff

PowNext == MineStep \/ MineExhausted

SpecPow == PowInit /\ [][PowNext]_vars

\* hash < target as 256-bit big-endian numbers
StrictlyBelow(hash, target_hash) ==
    \E i \in 1..32 :
      /\ hash[i] < target_hash[i]
      /\ \A j \in 1..(i - 1) : hash[j] = target_hash[j]

\* the header hash for nonce m was computed and is not below the target
TriedAndFailed(m) ==
    /\ m \in DOMAIN mining.hashes
    /\ ~StrictlyBelow(mining.hashes[m], Target_to_hash256(miner.self.bits))

\* C7: when Miner::mine has returned with success, result.nonce is the smallest
\* nonce whose header hash is strictly below the target (every smaller nonce was
\* hashed and failed), header.nonce is that nonce, result.hash is the hash of the
\* header, attempts is the nonce plus one and Miner::verify accepts the header;
\* when it has returned without success, every nonce was hashed and failed and
\* attempts is the size of the nonce space.
C7_MineSmallestNonce ==
    miner.pc = "done" =>
      /\ miner.result.success =>
           /\ miner.result.nonce \in 0..NonceMax
           /\ \A m \in 0..(miner.result.nonce - 1) : TriedAndFailed(m)
           /\ mining.nonce = miner.result.nonce
           /\ miner.result.hash = mining.hashes[mining.nonce]
           /\ StrictlyBelow(miner.result.hash, Target_to_hash256(miner.self.bits))
           /\ miner.result.attempts = miner.result.nonce + 1
           /\ Miner_verify(miner.self)
      /\ ~miner.result.success =>
           /\ \A m \in 0..NonceMax : TriedAndFailed(m)
           /\ miner.result.attempts = NonceMax + 1
           /\ DOMAIN mining.hashes = 0..NonceMax

\* a search that succeeded at its third nonce or later, after a hash equal to
\* the target was rejected at nonce 0
C7_Witness ==
    /\ miner.pc = "done"
    /\ miner.result.success
    /\ miner.result.nonce >= 2
    /\ mining.hashes[0] = Target_to_hash256(miner.self.bits)

---------------------------------------------------------------------------
(* consensus/gpu_pow.rs: GpuMiner. The device is outside the program: a      *)
(* batch reads back an error or any (found, nonce) pair. What the CPU does   *)
(* with the report is modelled step by step. The batch geometry is scaled    *)
(* down with the nonce width and, as in the code, both sizes are powers of   *)
(* two, so that a batch divides the nonce space.                             *)

WorkgroupBits == 0           \* 8 in the code
GroupBits == 1               \* 12 in the code

WORKGROUP_SIZE == 2 ^ WorkgroupBits       \* 256 in the code
GROUPS_PER_DISPATCH == 2 ^ GroupBits      \* 4096 in the code
SweepLen == 2                \* 256 in the code: `for offset in 1..=256u32`

nonces_per_dispatch == WORKGROUP_SIZE * GROUPS_PER_DISPATCH

\* GpuMiner::new: target_be holds the target as 8 big-endian words, each kept
\* as its four bytes
GpuMiner_new(bits) ==
    [bits |-> bits,
     target_be |-> [i \in 1..8 |-> SubSeq(Target_to_hash256(bits), 4 * i - 3, 4 * i)]]

\* u32::wrapping_add and u32::checked_add at the model's nonce width
wrapping_add(a, b) == (a + b) % (NonceMax + 1)
\* a checked_add that lets a sum of exactly 2^32 through, wrapped
checked_add_past_the_end(a, b) ==
    IF a + b > NonceMax + 1 THEN None ELSE Some((a + b) % (NonceMax + 1))

checked_add(a, b) == IF a + b > NonceMax THEN None ELSE Some(a + b)

\* the shader's main: worker gid hashes the header with nonce
\* params.start_nonce + gid.x, a u32 sum that wraps
ShaderNonce(start_nonce, gid) == wrapping_add(start_nonce, gid)

\* dispatch_workgroups(GROUPS_PER_DISPATCH, 1, 1): every worker of the batch
\* runs main once; tried[n] counts the workers that have hashed nonce n
Dispatch(tried, start_nonce) ==
    [n \in 0..NonceMax |->
       tried[n] + Cardinality({ gid \in 0..(nonces_per_dispatch - 1) :
                                  ShaderNonce(start_nonce, gid) = n })]

\* the CPU accepts whatever the device claims
GpuTrustDevice(self, hash) == TRUE

\* the CPU-side check of a nonce: Target::from_bits(self.bits).is_valid_hash(&hash)
GpuVerify(self, hash) == Target_is_valid_hash(self.bits, hash)

\* mine_gpu returns Err before its loop: no adapter, or no device
GpuNoDevice ==
    /\ gpu.pc = "init"
    /\ gpu' = [gpu EXCEPT !.pc = "fallback"]
    /\ UNCHANGED <<mining, miner, restOfPow>>

\* wgpu is initialised: start_time, total_attempts = 0, start_nonce = 0
GpuDeviceReady ==
    /\ gpu.pc = "init"
    /\ gpu' = [gpu EXCEPT !.pc = "batch", !.start_nonce = 0, !.total_attempts = 0]
    /\ UNCHANGED <<mining, miner, restOfPow>>

\* a batch whose readback fails: mine_gpu returns Err
GpuReadbackError ==
    /\ gpu.pc = "batch"
    /\ gpu' = [gpu EXCEPT !.pc = "fallback"]
    /\ UNCHANGED <<mining, miner, restOfPow>>

\* a batch that reports found = 0
GpuBatchNotFound ==
    /\ gpu.pc = "batch"
    /\ \E nonce \in 0..NonceMax :
         gpu' = [gpu EXCEPT !.pc = "advance",
                            !.report = [found |-> 0, nonce |-> nonce],
                            !.tried = Dispatch(@, gpu.start_nonce),
                            !.total_attempts = @ + nonces_per_dispatch]
    /\ UNCHANGED <<mining, miner, restOfPow>>

\* a batch that reports found != 0 and a nonce, which the CPU re-hashes
GpuBatchFound ==
    /\ gpu.pc = "batch"
    /\ \E nonce \in 0..NonceMax :
         \E hash \in HeaderHashes(nonce) :
           /\ mining' = SetNonceAndHash(nonce, hash)
           /\ gpu' =
                IF GpuVerify(gpu.self, hash)
                THEN [gpu EXCEPT
                        !.pc = "done",
                        !.report = [found |-> 1, nonce |-> nonce],
                        !.tried = Dispatch(@, gpu.start_nonce),
                        !.total_attempts = @ + nonces_per_dispatch,
                        !.result = MiningResult(TRUE, nonce, hash,
                                                gpu.total_attempts + nonces_per_dispatch)]
                ELSE [gpu EXCEPT
                        !.pc = "sweep", !.offset = 1,
                        !.report = [found |-> 1, nonce |-> nonce],
                        !.tried = Dispatch(@, gpu.start_nonce),
                        !.total_attempts = @ + nonces_per_dispatch]
    /\ UNCHANGED <<miner, restOfPow>>

\* one iteration of the CPU sweep after a claimed nonce that did not verify
GpuSweep ==
    /\ gpu.pc = "sweep"
    /\ gpu.offset <= SweepLen
    /\ \E hash \in HeaderHashes(wrapping_add(gpu.report.nonce, gpu.offset)) :
         /\ mining' = SetNonceAndHash(wrapping_add(gpu.report.nonce, gpu.offset), hash)
         /\ gpu' =
              IF GpuVerify(gpu.self, hash)
              THEN [gpu EXCEPT
                      !.pc = "done",
                      !.result = MiningResult(TRUE,
                                              wrapping_add(gpu.report.nonce, gpu.offset),
                                              hash, gpu.total_attempts + gpu.offset)]
              ELSE [gpu EXCEPT !.offset = @ + 1]
    /\ UNCHANGED <<miner, restOfPow>>

\* the sweep found nothing: on to the next batch
GpuSweepEnd ==
    /\ gpu.pc = "sweep"
    /\ gpu.offset > SweepLen
    /\ gpu' = [gpu EXCEPT !.pc = "advance"]
    /\ UNCHANGED <<mining, miner, restOfPow>>

\* start_nonce.checked_add(nonces_per_dispatch): the next batch, or the end
GpuAdvance ==
    /\ gpu.pc = "advance"
    /\ gpu' =
         IF checked_add(gpu.start_nonce, nonces_per_dispatch).some
         THEN [gpu EXCEPT
                 !.pc = "batch",
                 !.start_nonce = checked_add(gpu.start_nonce, nonces_per_dispatch).val]
         ELSE [gpu EXCEPT
                 !.pc = "done",
                 !.result = MiningResult(FALSE, 0, Hash256Zero, gpu.total_attempts)]
    /\ UNCHANGED <<mining, miner, restOfPow>>

\* a fallback that resumes the search at the nonce the GPU path left in the header
GpuFallbackResume ==
    /\ gpu.pc = "fallback"
    /\ miner' = [MinerLoop(gpu.self.bits) EXCEPT !.nonce = mining.nonce]
    /\ gpu' = [gpu EXCEPT !.pc = "cpu"]
    /\ UNCHANGED <<mining, restOfPow>>

\* GpuMiner::mine on Err: Miner::new(self.bits).mine(header)
GpuFallback ==
    /\ gpu.pc = "fallback"
    /\ miner' = MinerLoop(gpu.self.bits)
    /\ gpu' = [gpu EXCEPT !.pc = "cpu"]
    /\ UNCHANGED <<mining, restOfPow>>

\* the CPU miner has returned: its result is the result of GpuMiner::mine
GpuReturnCpu ==
    /\ gpu.pc = "cpu"
    /\ miner.pc = "done"
    /\ gpu' = [gpu EXCEPT !.pc = "done", !.result = miner.result]
    /\ UNCHANGED <<mining, miner, restOfPow>>

---------------------------------------------------------------------------
(* SpecGpu: GpuMiner::new(bits).mine(&mut header)                           *)

GpuInit ==
    /\ \E bits \in MinerBits :
         /\ mining = [bits |-> bits, nonce |-> 0, hashes |-> <<>>]
         /\ gpu = [pc |-> "init", self |-> GpuMiner_new(bits), start_nonce |-> 0,
                   total_attempts |-> 0, report |-> [found |-> 0, nonce |-> 0],
                   tried |-> [n \in 0..NonceMax |-> 0],
                   offset |-> 0, result |-> NoResult]
    /\ miner = MinerOff /\ target = TargetOff
    /\ CliVarsOff /\ api = ApiOff /\ codec = CodecIdle /\ wallet = WalletOff /\ call = CallOff /\ LaterVarsOff

GpuNext ==
    \/ GpuNoDevice
    \/ GpuDeviceReady
    \/ GpuReadbackError
    \/ GpuBatchNotFound
    \/ GpuBatchFound
    \/ GpuSweep
    \/ GpuSweepEnd
    \/ GpuAdvance
    \/ GpuFallback
    \/ MineStep
    \/ MineExhausted
    \/ GpuReturnCpu

SpecGpu == GpuInit /\ [][GpuNext]_vars

\* C8: when GpuMiner::mine has returned with success, whatever the device
\* reported, header.nonce is result.nonce, result.hash is the hash of the header
\* with that nonce, and Target(bits).is_valid_hash accepts it.
C8_GpuSuccessIsVerified ==
    (gpu.pc = "done" /\ gpu.result.success) =>
      /\ mining.nonce = gpu.result.nonce
      /\ mining.nonce \in DOMAIN mining.hashes
      /\ gpu.result.hash = mining.hashes[mining.nonce]
      /\ Target_is_valid_hash(gpu.self.bits, gpu.result.hash)

\* the device claimed a nonce that did not verify, and the sweep of the nonces
\* after it found the one returned
C8_Witness ==
    /\ gpu.pc = "done"
    /\ gpu.result.success
    /\ miner = MinerOff
    /\ gpu.report.found # 0
    /\ gpu.result.nonce # gpu.report.nonce
    /\ ~Target_is_valid_hash(gpu.self.bits, mining.hashes[gpu.report.nonce])

\* header.hash() for nonce n has been computed and the scalar miner accepts it
ScalarAccepts(n) ==
    /\ n \in DOMAIN mining.hashes
    /\ Miner_is_valid_hash_fast(Miner_new(gpu.self.bits), mining.hashes[n])

\* header.hash() for nonce n has been computed and the scalar miner rejects it
ScalarRejects(n) ==
    /\ n \in DOMAIN mining.hashes
    /\ ~Miner_is_valid_hash_fast(Miner_new(gpu.self.bits), mining.hashes[n])

\* n is the nonce at which Miner::new(bits).mine(header) returns
ScalarStopsAt(n) == ScalarAccepts(n) /\ \A m \in 0..(n - 1) : ScalarRejects(m)

\* C22: when GpuMiner::mine has returned through the fallback, its result is the
\* result of Miner::new(bits).mine(header) on the same header: the smallest nonce
\* the scalar miner accepts, with its hash, or success = false with nonce 0 and
\* the zero hash when it rejects every nonce; whatever nonce the GPU path had
\* left in the header.
C22_FallbackIsScalarMine ==
    (gpu.pc = "done" /\ miner # MinerOff) =>
      IF \E n \in 0..NonceMax : ScalarStopsAt(n)
      THEN /\ gpu.result.success
           /\ ScalarStopsAt(gpu.result.nonce)
           /\ gpu.result.hash = mining.hashes[gpu.result.nonce]
           /\ mining.nonce = gpu.result.nonce
      ELSE /\ ~gpu.result.success
           /\ gpu.result.nonce = 0 /\ gpu.result.hash = Hash256Zero
           /\ \A n \in 0..NonceMax : ScalarRejects(n)

\* a readback error in a later batch, after the CPU check of a claimed nonce and
\* the sweep behind it had left the last swept nonce in the header; the
\* fallback returned another nonce
C22_Witness ==
    /\ gpu.pc = "done" /\ miner # MinerOff
    /\ gpu.report.found # 0 /\ gpu.start_nonce > 0
    /\ gpu.result.success
    /\ gpu.result.nonce > 0
    /\ gpu.result.nonce # wrapping_add(gpu.report.nonce, SweepLen)

---------------------------------------------------------------------------
(* u64 arithmetic. A u64 is kept as its two 32-bit halves; sums and         *)
(* differences are computed on its four 16-bit limbs, least significant     *)
(* first, so that every carry is explicit and no width is lost.             *)

Limbs(v) ==
    << v.lo % 65536, (v.lo \div 65536) % 65536, v.hi % 65536, (v.hi \div 65536) % 65536 >>

Word32(l0, l1) == l0 + 65536 * (IF l1 >= 32768 THEN l1 - 65536 ELSE l1)

FromLimbs(l) == [hi |-> Word32(l[3], l[4]), lo |-> Word32(l[1], l[2])]

HeadOrZero(l) == IF l = <<>> THEN 0 ELSE Head(l)
TailOrEmpty(l) == IF l = <<>> THEN <<>> ELSE Tail(l)

\* the exact sum of two limb sequences and a carry
RECURSIVE AddLimbs(_, _, _)
AddLimbs(a, b, carry) ==
    IF a = <<>> /\ b = <<>> THEN (IF carry = 0 THEN <<>> ELSE << carry >>)
    ELSE << (HeadOrZero(a) + HeadOrZero(b) + carry) % 65536 >>
           \o AddLimbs(TailOrEmpty(a), TailOrEmpty(b),
                       (HeadOrZero(a) + HeadOrZero(b) + carry) \div 65536)

\* a - b - borrow on limb sequences of one length, for a >= b
RECURSIVE SubLimbs(_, _, _)
SubLimbs(a, b, borrow) ==
    IF a = <<>> THEN <<>>
    ELSE << (Head(a) - Head(b) - borrow) % 65536 >>
           \o SubLimbs(Tail(a), Tail(b), IF Head(a) - Head(b) - borrow < 0 THEN 1 ELSE 0)

LimbsLess(a, b) ==
    \E i \in 1..Len(a) : a[i] < b[i] /\ \A j \in (i + 1)..Len(a) : a[j] = b[j]

U64Less(a, b) == LimbsLess(Limbs(a), Limbs(b))

U64MAX == [hi |-> -1, lo |-> -1]

\* u64::overflowing_add
overflowing_add(a, b) ==
    [val |-> FromLimbs(SubSeq(AddLimbs(Limbs(a), Limbs(b), 0), 1, 4)),
     overflow |-> Len(AddLimbs(Limbs(a), Limbs(b), 0)) > 4]

\* u64::saturating_sub
saturating_sub(a, b) ==
    IF U64Less(a, b) THEN U64(0) ELSE FromLimbs(SubLimbs(Limbs(a), Limbs(b), 0))

---------------------------------------------------------------------------
(* secp256k1, hash160 and wallet/keystore.rs: KeyPair. A secret key is a    *)
(* byte s; its compressed public key is 0x02 followed by 32 bytes s.        *)
(* hash160 is a function that has no collision among these public keys: it  *)
(* gives bytes 2..21 of its argument. The DER signature of a digest under   *)
(* the secret key s is 0x30, s, and the digest: a signature verifies under  *)
(* a public key and a digest exactly when it was made with the secret key   *)
(* of that public key over that same digest.                                *)

PublicKey_serialize(secret_key) == <<2>> \o Repeat(secret_key, 32)

hash160(data) == IF Len(data) >= 21 THEN SubSeq(data, 2, 21) ELSE Repeat(0, 20)

sign_ecdsa(message, secret_key) == <<48, secret_key>> \o message

\* PublicKey::from_slice, Signature::from_der and secp.verify_ecdsa
PublicKey_from_slice_ok(pubkey) ==
    Len(pubkey) = 33 /\ pubkey = PublicKey_serialize(pubkey[2])

Signature_from_der_ok(signature) == Len(signature) = 34 /\ signature[1] = 48

verify_ecdsa(message, signature, pubkey) ==
    signature = sign_ecdsa(message, pubkey[2])

\* the key pair whose address is the given one: hash160 of its public key is
\* the hash the address prints
KeyPairOf(address) ==
    [secret_key |-> Address_to_pubkey_hash(address).val[1], address |-> address]

KeyPair_pubkey_bytes(keypair) == PublicKey_serialize(keypair.secret_key)

KeyPair_pubkey_hash(keypair) == hash160(KeyPair_pubkey_bytes(keypair))

KeyPair_script_pubkey(keypair) == p2pkh_script_pubkey(KeyPair_pubkey_hash(keypair))

Keystore_get_keypair(ks, address) ==
    IF address \in ks.keys THEN Some(KeyPairOf(address)) ELSE None

---------------------------------------------------------------------------
(* core/script.rs: the scriptSig and its verification                       *)

p2pkh_script_sig(signature, pubkey) ==
    << Len(signature) % 256 >> \o signature \o << Len(pubkey) % 256 >> \o pubkey

\* parse_script_sig: Ok(<<signature, pubkey>>) or Err
parse_script_sig(script_sig) ==
    IF script_sig = <<>> THEN Err
    ELSE IF 1 + script_sig[1] > Len(script_sig) THEN Err
    ELSE IF 1 + script_sig[1] >= Len(script_sig) THEN Err
    ELSE IF 2 + script_sig[1] + script_sig[2 + script_sig[1]] > Len(script_sig) THEN Err
    ELSE Some(<< SubSeq(script_sig, 2, 1 + script_sig[1]),
                 SubSeq(script_sig, 3 + script_sig[1],
                        2 + script_sig[1] + script_sig[2 + script_sig[1]]) >>)

parse_script_pubkey(script_pubkey) ==
    IF Len(script_pubkey) # 25 THEN Err
    ELSE IF script_pubkey[1] # 118 \/ script_pubkey[2] # 169 \/ script_pubkey[3] # 20
            \/ script_pubkey[24] # 136 \/ script_pubkey[25] # 172 THEN Err
    ELSE Some(SubSeq(script_pubkey, 4, 23))

\* verify_signature: Some(bool) or Err
verify_signature(signature, pubkey, message) ==
    IF ~PublicKey_from_slice_ok(pubkey) THEN Err
    ELSE IF ~Signature_from_der_ok(signature) THEN Err
    ELSE Some(verify_ecdsa(message, signature, pubkey))

\* verify_p2pkh that checks the signature before it compares the key hashes
VerifySignatureFirst(sig_and_pubkey, pubkey_hash, tx_hash) ==
    IF ~sig_and_pubkey.ok \/ ~pubkey_hash.ok THEN Err
    ELSE IF ~verify_signature(sig_and_pubkey.val[1], sig_and_pubkey.val[2], tx_hash).ok
      THEN Err
    ELSE IF hash160(sig_and_pubkey.val[2]) # pubkey_hash.val THEN Some(FALSE)
    ELSE verify_signature(sig_and_pubkey.val[1], sig_and_pubkey.val[2], tx_hash)

VerifyParsed(sig_and_pubkey, pubkey_hash, tx_hash) ==
    IF ~sig_and_pubkey.ok \/ ~pubkey_hash.ok THEN Err
    ELSE IF hash160(sig_and_pubkey.val[2]) # pubkey_hash.val THEN Some(FALSE)
    ELSE verify_signature(sig_and_pubkey.val[1], sig_and_pubkey.val[2], tx_hash)

verify_p2pkh(script_sig, script_pubkey, tx_hash) ==
    VerifyParsed(parse_script_sig(script_sig), parse_script_pubkey(script_pubkey), tx_hash)

\* consensus/validation.rs: BlockValidator::validate_transaction_signature.
\* input_index counts from 0; the digest is the txid of tx as it is given
validate_transaction_signature(o, tx, input_index, script_pubkey) ==
    IF input_index >= Len(tx.inputs) THEN "EmptyTransaction"
    ELSE IF TxInput_is_coinbase(tx.inputs[input_index + 1]) THEN "Ok"
    ELSE IF verify_p2pkh(tx.inputs[input_index + 1].script_sig, script_pubkey,
                         Transaction_txid(o, tx)) = Some(TRUE) THEN "Ok"
    ELSE "InvalidSignature"

---------------------------------------------------------------------------
(* storage/utxo_set.rs: get_utxos_for_script. sled iterates its keys in     *)
(* lexicographic byte order.                                                *)

LexLess(a, b) ==
    \/ Len(a) < Len(b) /\ a = SubSeq(b, 1, Len(a))
    \/ \E i \in 1..Len(a) :
         /\ i <= Len(b) /\ a[i] < b[i]
         /\ \A j \in 1..(i - 1) : a[j] = b[j]

RECURSIVE SortedKeys(_)
SortedKeys(keys) ==
    IF keys = {} THEN <<>>
    ELSE LET first == CHOOSE k \in keys : \A other \in keys \ {k} : LexLess(k, other)
         IN << first >> \o SortedKeys(keys \ {first})

RECURSIVE ScanUtxos(_, _, _, _)
ScanUtxos(db, keys, script_pubkey, utxos) ==
    IF keys = <<>> THEN Some(utxos)
    ELSE IF ~Utxo_from_bytes(db[Head(keys)]).ok THEN Err
    ELSE IF Utxo_from_bytes(db[Head(keys)]).val.output.script_pubkey # script_pubkey
      THEN ScanUtxos(db, Tail(keys), script_pubkey, utxos)
    ELSE IF ~OutPoint_from_bytes(Head(keys)).ok THEN Err
    ELSE ScanUtxos(db, Tail(keys), script_pubkey,
                   Append(utxos, [outpoint |-> OutPoint_from_bytes(Head(keys)).val,
                                  utxo |-> Utxo_from_bytes(db[Head(keys)]).val]))

get_utxos_for_script(db, script_pubkey) ==
    ScanUtxos(db, SortedKeys(DOMAIN db), script_pubkey, <<>>)

---------------------------------------------------------------------------
(* wallet/tx_builder.rs: TransactionBuilder. `a + b` and `total += v` on    *)
(* u64 panic on overflow when the build has overflow checks (the debug      *)
(* profile) and wrap when it has none (the release profile); the source     *)
(* fixes neither, so overflow_checks is an input of the model.              *)

\* the String of an Err, by the format that made it; have and need are the
\* numbers "Insufficient funds: have {}, need {}" prints
Message(kind) == [kind |-> kind, have |-> U64(0), need |-> U64(0)]

InsufficientFunds(have, need) == [kind |-> "Insufficient funds", have |-> have, need |-> need]

BuildErr(error) == [status |-> "err", error |-> error, tx |-> Transaction_new(<<>>, <<>>),
                    unsigned |-> Transaction_new(<<>>, <<>>)]

BuildPanic == [status |-> "panic", error |-> Message("attempt to add with overflow"),
               tx |-> Transaction_new(<<>>, <<>>),
               unsigned |-> Transaction_new(<<>>, <<>>)]

\* select_utxos, one iteration of its loop per call
RECURSIVE SelectLoop(_, _, _, _, _, _)
SelectLoop(utxos, i, selected, total, target_amount, overflow_checks) ==
    IF i > Len(utxos) THEN [status |-> "err", selected |-> <<>>, total |-> total]
    ELSE IF overflowing_add(total, utxos[i].utxo.output.value).overflow /\ overflow_checks
      THEN [status |-> "panic", selected |-> <<>>, total |-> U64(0)]
    ELSE IF ~U64Less(overflowing_add(total, utxos[i].utxo.output.value).val, target_amount)
      THEN [status |-> "ok", selected |-> Append(selected, utxos[i]),
            total |-> overflowing_add(total, utxos[i].utxo.output.value).val]
    ELSE SelectLoop(utxos, i + 1, Append(selected, utxos[i]),
                    overflowing_add(total, utxos[i].utxo.output.value).val,
                    target_amount, overflow_checks)

select_utxos(utxos, target_amount, overflow_checks) ==
    SelectLoop(utxos, 1, <<>>, U64(0), target_amount, overflow_checks)

UnsignedInputs(selected_utxos) ==
    [i \in 1..Len(selected_utxos) |->
       TxInput_new(selected_utxos[i].outpoint.txid, selected_utxos[i].outpoint.vout, <<>>)]

\* the payment output, and the change output if change > 0
BuildOutputs(amount, recipient_script, change, sender_script) ==
    << TxOutput_new(amount, recipient_script) >>
      \o (IF U64Less(U64(0), change) THEN << TxOutput_new(change, sender_script) >>
          ELSE <<>>)

\* sign_transaction: tx_hash is the txid of tx as it is before any input is
\* signed, and each of the first n inputs gets <signature> <pubkey>
sign_transaction(o, tx, n, keypair) ==
    [tx EXCEPT !.inputs =
       [i \in 1..Len(tx.inputs) |->
          IF i > n THEN tx.inputs[i]
          ELSE [tx.inputs[i] EXCEPT !.script_sig =
                  p2pkh_script_sig(sign_ecdsa(Transaction_txid(o, tx), keypair.secret_key),
                                   KeyPair_pubkey_bytes(keypair))]]]

BuildSigned(o, keypair, unsigned) ==
    [status |-> "ok", error |-> Message(""),
     tx |-> sign_transaction(Intern(o, Transaction_serialize(unsigned)), unsigned,
                             Len(unsigned.inputs), keypair),
     unsigned |-> unsigned]

BuildWithSelection(o, keypair, selection, to, amount, fee) ==
    IF selection.status = "err"
      THEN BuildErr(InsufficientFunds(selection.total, overflowing_add(amount, fee).val))
    ELSE IF selection.status = "panic" THEN BuildPanic
    ELSE IF ~Address_to_pubkey_hash(to).ok THEN BuildErr(Message("Invalid address"))
    ELSE BuildSigned(o, keypair,
           Transaction_new(
             UnsignedInputs(selection.selected),
             BuildOutputs(amount, p2pkh_script_pubkey(Address_to_pubkey_hash(to).val),
                          saturating_sub(selection.total, overflowing_add(amount, fee).val),
                          KeyPair_script_pubkey(keypair))))

BuildWithUtxos(o, keypair, utxos, to, amount, fee, overflow_checks) ==
    IF ~utxos.ok THEN BuildErr(Message("Iterator error"))
    ELSE IF utxos.val = <<>> THEN BuildErr(Message("No UTXOs available for sender"))
    ELSE IF overflowing_add(amount, fee).overflow /\ overflow_checks THEN BuildPanic
    ELSE BuildWithSelection(o, keypair,
           select_utxos(utxos.val, overflowing_add(amount, fee).val, overflow_checks),
           to, amount, fee)

TransactionBuilder_build(ks, db, o, from, to, amount, fee, overflow_checks) ==
    IF ~Keystore_get_keypair(ks, from).some
      THEN BuildErr(Message("Sender address not found in keystore"))
    ELSE BuildWithUtxos(o, Keystore_get_keypair(ks, from).val,
           get_utxos_for_script(db,
             KeyPair_script_pubkey(Keystore_get_keypair(ks, from).val)),
           to, amount, fee, overflow_checks)

---------------------------------------------------------------------------
(* The wallet specification: a keystore that holds the key pair of AddrA,   *)
(* a UTXO set drawn from the samples, one call of build, and then calls of  *)
(* validate_transaction_signature on the transaction it returned.           *)

MaxIndex == 2          \* validation is asked for the input indexes 0..MaxIndex

restOfWallet ==
    <<blockchain, utxo_set, keystore, cmd, stored, api, codec, target, mining, miner, gpu,
      call, laterVars>>

SenderScript == KeyPair_script_pubkey(KeyPairOf(AddrA))

UtxoSamples ==
    { [outpoint |-> OutPoint_new(HashA, 0),
       utxo |-> Utxo_new(TxOutput_new(U64(100000), SenderScript), 1, FALSE)],
      [outpoint |-> OutPoint_new(HashA, 1),
       utxo |-> Utxo_new(TxOutput_new(BLOCK_REWARD, SenderScript), 2, TRUE)],
      [outpoint |-> OutPoint_new(HashB, 0),
       utxo |-> Utxo_new(TxOutput_new(U64(7000),
                                      KeyPair_script_pubkey(KeyPairOf(AddrB))), 1, FALSE)] }

RECURSIVE UtxoDb(_)
UtxoDb(entries) ==
    IF entries = {} THEN DbEmpty
    ELSE LET e == CHOOSE x \in entries : TRUE
         IN add_utxo(UtxoDb(entries \ {e}), e.outpoint, e.utxo)

FromSamples == { AddrA, AddrB }
ToSamples == { AddrA, AddrB, AddrShort }
AmountSamples ==
    { U64(0), U64(50000), U64(99000), BLOCK_REWARD, [hi |-> 1, lo |-> 705132704], U64MAX }
FeeSamples == { U64(0), U64(2), U64(1000) }

WalletIdle(overflow_checks) ==
    [pc |-> "idle", overflow_checks |-> overflow_checks, from |-> <<>>, to |-> <<>>,
     amount |-> U64(0), fee |-> U64(0), result |-> BuildErr(Message("")), checks |-> <<>>]

\* TransactionBuilder::build(from, to, amount, fee)
WalletBuild ==
    /\ wallet.pc = "idle"
    /\ \E from \in FromSamples, to \in ToSamples, amount \in AmountSamples,
          fee \in FeeSamples :
         wallet' = [wallet EXCEPT
                      !.pc = "built", !.from = from, !.to = to, !.amount = amount,
                      !.fee = fee,
                      !.result = TransactionBuilder_build(keystore, utxo_set, oracle, from,
                                   to, amount, fee, wallet.overflow_checks)]
    /\ oracle' = IF wallet'.result.status = "ok"
                 THEN Intern(oracle, Transaction_serialize(wallet'.result.unsigned))
                 ELSE oracle
    /\ UNCHANGED restOfWallet

\* BlockValidator::validate_transaction_signature(tx, input_index, script) on the
\* transaction build returned and the sender's scriptPubKey
WalletValidate ==
    /\ wallet.pc = "built" /\ wallet.result.status = "ok"
    /\ \E input_index \in 0..MaxIndex :
         /\ input_index \notin DOMAIN wallet.checks
         /\ oracle' = IF input_index < Len(wallet.result.tx.inputs)
                      THEN Intern(oracle, Transaction_serialize(wallet.result.tx))
                      ELSE oracle
         /\ wallet' = [wallet EXCEPT !.checks =
                         @ @@ (input_index :>
                                 validate_transaction_signature(oracle', wallet.result.tx,
                                   input_index, KeyPair_script_pubkey(KeyPairOf(wallet.from))))]
    /\ UNCHANGED restOfWallet

WalletInit ==
    /\ blockchain = DbEmpty /\ oracle = <<>> /\ cmd = CmdOff /\ stored = {}
    /\ keystore = Keystore_new_address(Keystore_new, AddrA)
    /\ utxo_set \in { UtxoDb(entries) : entries \in SUBSET UtxoSamples }
    /\ wallet \in { WalletIdle(overflow_checks) : overflow_checks \in BOOLEAN }
    /\ api = ApiOff /\ codec = CodecIdle /\ PowVarsOff /\ call = CallOff /\ LaterVarsOff

WalletNext == WalletBuild \/ WalletValidate

SpecWallet == WalletInit /\ [][WalletNext]_vars

Built == wallet.pc = "built" /\ wallet.result.status = "ok"

\* C9: for every transaction returned by build and every input index i of it,
\* validate_transaction_signature(tx, i, sender's scriptPubKey) returns Ok(())
C9_SignerVerifierAgree ==
    Built =>
      \A i \in DOMAIN wallet.checks :
        i < Len(wallet.result.tx.inputs) => wallet.checks[i] = "Ok"

\* what the code does instead: every scriptSig build wrote verifies against the
\* txid of the transaction with empty script_sigs, the digest the verifier takes
\* is the txid of the signed transaction, a different one, and it rejects
C9_VerifierTakesSignedTxid ==
    Built =>
      /\ \A i \in 1..Len(wallet.result.tx.inputs) :
           verify_p2pkh(wallet.result.tx.inputs[i].script_sig, SenderScript,
                        Transaction_txid(oracle, wallet.result.unsigned)) = Some(TRUE)
      /\ \A i \in DOMAIN wallet.checks :
           i < Len(wallet.result.tx.inputs) =>
             /\ wallet.checks[i] = "InvalidSignature"
             /\ Transaction_txid(oracle, wallet.result.tx)
                  # Transaction_txid(oracle, wallet.result.unsigned)

\* exact sums, as limb sequences
RECURSIVE OutputsValue(_)
OutputsValue(outputs) ==
    IF outputs = <<>> THEN <<>>
    ELSE AddLimbs(Limbs(Head(outputs).value), OutputsValue(Tail(outputs)), 0)

RECURSIVE InputsValue(_, _)
InputsValue(db, inputs) ==
    IF inputs = <<>> THEN <<>>
    ELSE AddLimbs(
           Limbs(get_utxo(db, OutPoint_new(Head(inputs).prev_tx_hash,
                                           Head(inputs).prev_index)).val.output.value),
           InputsValue(db, Tail(inputs)), 0)

Wide(l) == l \o Repeat(0, 6 - Len(l))

\* outputs + fee = inputs; inputs >= amount + fee; the first output pays amount;
\* a second output is there iff inputs > amount + fee, and it pays the excess to
\* the sender's script
ConservesValue(tx, inputs_value, amount, fee, sender_script) ==
    /\ Wide(AddLimbs(OutputsValue(tx.outputs), Limbs(fee), 0)) = Wide(inputs_value)
    /\ ~LimbsLess(Wide(inputs_value), Wide(AddLimbs(Limbs(amount), Limbs(fee), 0)))
    /\ Len(tx.outputs) \in {1, 2}
    /\ tx.outputs[1].value = amount
    /\ Len(tx.outputs) = 2
         <=> Wide(inputs_value) # Wide(AddLimbs(Limbs(amount), Limbs(fee), 0))
    /\ Len(tx.outputs) = 2 =>
         /\ tx.outputs[2].script_pubkey = sender_script
         /\ Limbs(tx.outputs[2].value) # Limbs(U64(0))

\* C10: every successful build, for all u64 amount and fee, conserves value:
\* outputs + fee = inputs exactly, change = inputs - amount - fee >= 0, and the
\* change output to the sender is present iff change > 0
C10_BuildConservesValue ==
    Built =>
      ConservesValue(wallet.result.tx,
                     InputsValue(utxo_set, wallet.result.tx.inputs),
                     wallet.amount, wallet.fee, SenderScript)

\* what the code does instead: value is conserved when amount + fee fits in a
\* u64; a build without overflow checks goes on with the wrapped sum
C10_ConservesValueUnlessWrapped ==
    Built /\ ~overflowing_add(wallet.amount, wallet.fee).overflow =>
      ConservesValue(wallet.result.tx,
                     InputsValue(utxo_set, wallet.result.tx.inputs),
                     wallet.amount, wallet.fee, SenderScript)

C10_Wrapped ==
    Built /\ overflowing_add(wallet.amount, wallet.fee).overflow

---------------------------------------------------------------------------
(* Coin selection, seen from the result of build                            *)

\* the exact total of the first n of the UTXOs, as limbs
RECURSIVE PrefixValue(_, _)
PrefixValue(utxos, n) ==
    IF n = 0 THEN <<>>
    ELSE AddLimbs(Limbs(utxos[n].utxo.output.value), PrefixValue(utxos, n - 1), 0)

SenderUtxos == get_utxos_for_script(utxo_set, KeyPair_script_pubkey(KeyPairOf(wallet.from))).val

SpentOutPoints(tx) ==
    [i \in 1..Len(tx.inputs) |->
       OutPoint_new(tx.inputs[i].prev_tx_hash, tx.inputs[i].prev_index)]

\* the inputs spend the first n UTXOs, whose total covers need, and no shorter
\* non-empty prefix does
IsShortestPrefix(tx, utxos, need) ==
    /\ Len(tx.inputs) \in 1..Len(utxos)
    /\ SpentOutPoints(tx) = [i \in 1..Len(tx.inputs) |-> utxos[i].outpoint]
    /\ ~LimbsLess(Wide(PrefixValue(utxos, Len(tx.inputs))), Wide(need))
    /\ \A n \in 1..(Len(tx.inputs) - 1) : LimbsLess(Wide(PrefixValue(utxos, n)), Wide(need))

\* Err("Insufficient funds: have {total of the UTXOs}, need {amount + fee}")
IsInsufficientFunds(result, utxos, need) ==
    /\ result.status = "err"
    /\ result.error.kind = "Insufficient funds"
    /\ Wide(Limbs(result.error.have)) = Wide(PrefixValue(utxos, Len(utxos)))
    /\ Wide(Limbs(result.error.need)) = Wide(need)

CoinSelection(result, utxos, need) ==
    /\ result.status = "ok" => IsShortestPrefix(result.tx, utxos, need)
    /\ LimbsLess(Wide(PrefixValue(utxos, Len(utxos))), Wide(need))
         => IsInsufficientFunds(result, utxos, need)

BuildCalled == wallet.pc = "built" /\ wallet.from \in keystore.keys

\* C11: build spends the shortest prefix of the sender's UTXOs, in iteration
\* order, whose total is >= amount + fee, and whenever the sender's UTXOs
\* (possibly none) total less than amount + fee it fails with
\* InsufficientFunds(have, need)
C11_CoinSelection ==
    BuildCalled =>
      CoinSelection(wallet.result, SenderUtxos,
                    AddLimbs(Limbs(wallet.amount), Limbs(wallet.fee), 0))

\* what the code does instead: the claim's statement holds when the sender has a
\* UTXO and amount + fee fits in a u64; a sender without UTXOs gets the error
\* "No UTXOs available for sender"
C11_CoinSelectionWithUtxos ==
    /\ BuildCalled /\ SenderUtxos # <<>>
         /\ ~overflowing_add(wallet.amount, wallet.fee).overflow
         => CoinSelection(wallet.result, SenderUtxos,
                          AddLimbs(Limbs(wallet.amount), Limbs(wallet.fee), 0))
    /\ BuildCalled /\ SenderUtxos = <<>>
         => wallet.result.status = "err"
            /\ wallet.result.error = Message("No UTXOs available for sender")

---------------------------------------------------------------------------
(* consensus/validation.rs: BlockValidator. A result is "Ok", the name of   *)
(* the ValidationError, or "panic". header_hash is header.hash(); now is    *)
(* the clock, in seconds since the epoch, as u32.                           *)

\* unsigned comparison of two u32
U32Less(a, b) == U64Less([hi |-> 0, lo |-> a], [hi |-> 0, lo |-> b])

\* a + b on u32: the wrapped sum, and whether it overflowed
u32_overflowing_add(a, b) ==
    [val |-> overflowing_add([hi |-> 0, lo |-> a], [hi |-> 0, lo |-> b]).val.lo,
     overflow |-> overflowing_add([hi |-> 0, lo |-> a], [hi |-> 0, lo |-> b]).val.hi # 0]

BlockValidator_new(bits) == [miner |-> Miner_new(bits)]

\* validate_header that looks at the version before the proof of work
validate_header_version_first(self, header, header_hash, now, overflow_checks) ==
    IF U32Less(header.version, 1) THEN "InvalidVersion"
    ELSE IF header.prev_block_hash # Hash256Zero
            /\ ~Target_is_valid_hash(self.miner.bits, header_hash) THEN "InvalidProofOfWork"
    ELSE IF u32_overflowing_add(now, 7200).overflow /\ overflow_checks THEN "panic"
    ELSE IF U32Less(u32_overflowing_add(now, 7200).val, header.timestamp)
      THEN "InvalidTimestamp"
    ELSE "Ok"

validate_header(self, header, header_hash, now, overflow_checks) ==
    IF header.prev_block_hash # Hash256Zero
       /\ ~Target_is_valid_hash(self.miner.bits, header_hash) THEN "InvalidProofOfWork"
    ELSE IF U32Less(header.version, 1) THEN "InvalidVersion"
    ELSE IF u32_overflowing_add(now, 7200).overflow /\ overflow_checks THEN "panic"
    ELSE IF U32Less(u32_overflowing_add(now, 7200).val, header.timestamp)
      THEN "InvalidTimestamp"
    ELSE "Ok"

validate_transaction(tx) ==
    IF tx.inputs = <<>> \/ tx.outputs = <<>> THEN "EmptyTransaction"
    ELSE IF Transaction_is_coinbase(tx) /\ Len(tx.inputs) # 1 THEN "InvalidCoinbaseInputCount"
    ELSE "Ok"

\* `for tx in &block.transactions[1..]`, from the i-th transaction on
RECURSIVE LaterCoinbase(_, _)
LaterCoinbase(transactions, i) ==
    IF i > Len(transactions) THEN FALSE
    ELSE IF Transaction_is_coinbase(transactions[i]) THEN TRUE
    ELSE LaterCoinbase(transactions, i + 1)

\* `for tx in &block.transactions { self.validate_transaction(tx)?; }`
RECURSIVE ValidateTransactions(_, _)
ValidateTransactions(transactions, i) ==
    IF i > Len(transactions) THEN "Ok"
    ELSE IF validate_transaction(transactions[i]) # "Ok"
      THEN validate_transaction(transactions[i])
    ELSE ValidateTransactions(transactions, i + 1)

coinbase_count(transactions) ==
    Cardinality({ i \in 1..Len(transactions) : Transaction_is_coinbase(transactions[i]) })

\* validate_block after the header: the Merkle root is compared before the
\* list is looked at
validate_body_merkle_first(o, block) ==
    IF calculate_merkle_root(o, block.transactions).root # block.header.merkle_root
      THEN "InvalidMerkleRoot"
    ELSE IF block.transactions = <<>> THEN "NoTransactions"
    ELSE IF ~Transaction_is_coinbase(block.transactions[1]) THEN "MissingCoinbase"
    ELSE IF LaterCoinbase(block.transactions, 2) THEN "CoinbaseNotFirst"
    ELSE ValidateTransactions(block.transactions, 1)

\* validate_block after the header
validate_body(o, block) ==
    IF block.transactions = <<>> THEN "NoTransactions"
    ELSE IF ~Transaction_is_coinbase(block.transactions[1]) THEN "MissingCoinbase"
    ELSE IF LaterCoinbase(block.transactions, 2) THEN "CoinbaseNotFirst"
    ELSE IF coinbase_count(block.transactions) > 1 THEN "MultipleCoinbase"
    ELSE IF calculate_merkle_root(o, block.transactions).root # block.header.merkle_root
      THEN "InvalidMerkleRoot"
    ELSE ValidateTransactions(block.transactions, 1)

validate_block(self, o, block, header_hash, now, overflow_checks) ==
    IF validate_header(self, block.header, header_hash, now, overflow_checks) # "Ok"
      THEN validate_header(self, block.header, header_hash, now, overflow_checks)
    ELSE validate_body(o, block)

---------------------------------------------------------------------------
(* The validation specification: one call of validate_header or of          *)
(* validate_block on a sample header or block. The clock reads a time of    *)
(* the years 2009 to 2023, for which now + 7200 fits in a u32.              *)

restOfValidation ==
    <<blockchain, utxo_set, keystore, cmd, stored, api, codec, target, mining, miner, gpu,
      wallet, laterVars>>

ValidatorBits == { 486604799, 553648127 }       \* 0x1d00ffff, 0x20ffffff
NowSamples == { 1231006505, 1700000000 }

TxCoinbaseNoOutput == Transaction_new(<< TxInput_coinbase(<<4, 5, 6>>, 0) >>, <<>>)

\* a coinbase-style input together with another input
TxMixed ==
    Transaction_new(<< TxInput_coinbase(<<4, 5, 6>>, 0), TxInput_new(HashA, 0, <<>>) >>,
                    << TxOutput_new(U64(1000), <<>>) >>)

TxMixedNoOutput ==
    Transaction_new(<< TxInput_new(HashA, 0, <<>>), TxInput_coinbase(<<4, 5, 6>>, 0) >>, <<>>)

ValidationTxs == { TxCoinbase, TxSpend, TxEmpty, TxCoinbaseNoOutput, TxMixed }

ValidationTxLists == UNION { [1..n -> ValidationTxs] : n \in 0..MaxTxs }

ValidationHeaders(bits, now) ==
    { BlockHeader_new(version, prev_block_hash, Hash256Zero, timestamp, bits, 0) :
        version \in { 0, 1, U32Max },
        prev_block_hash \in { Hash256Zero, HashA },
        timestamp \in { 1231006505, now + 7200, now + 7201, U32Max } }

CallIdle(now, overflow_checks) ==
    [pc |-> "idle", fn |-> "", now |-> now, overflow_checks |-> overflow_checks,
     validator |-> BlockValidator_new(0), block |-> Block_new(HeaderA, <<>>),
     header_hash |-> Hash256Zero, result |-> ""]

\* validator.validate_header(&header)
ValidateHeaderCall ==
    /\ call.pc = "idle"
    /\ \E bits \in ValidatorBits :
         \E header \in ValidationHeaders(bits, call.now), header_hash \in HashChoices(bits) :
           call' = [call EXCEPT
                      !.pc = "done", !.fn = "validate_header",
                      !.validator = BlockValidator_new(bits),
                      !.block = Block_new(header, <<>>), !.header_hash = header_hash,
                      !.result = validate_header(BlockValidator_new(bits), header, header_hash,
                                                 call.now, call.overflow_checks)]
    /\ UNCHANGED <<oracle, restOfValidation>>

\* a block of the given header and transactions whose header commits to the
\* Merkle root of the transactions, or to another hash
SampleBlock(o, header, transactions, good_root) ==
    Block_new([header EXCEPT !.merkle_root =
                 IF good_root THEN calculate_merkle_root(o, transactions).root ELSE HashA],
              transactions)

\* validator.validate_block(&block); the oracle takes what the maker of the
\* block and the validator hash
ValidateBlockCall ==
    /\ call.pc = "idle"
    /\ \E bits \in ValidatorBits, transactions \in ValidationTxLists, good_root \in BOOLEAN :
         \E header \in ValidationHeaders(bits, call.now), header_hash \in HashChoices(bits) :
           /\ call' = [call EXCEPT
                         !.pc = "done", !.fn = "validate_block",
                         !.validator = BlockValidator_new(bits),
                         !.block = SampleBlock(oracle, header, transactions, good_root),
                         !.header_hash = header_hash,
                         !.result = validate_block(BlockValidator_new(bits), oracle,
                                      SampleBlock(oracle, header, transactions, good_root),
                                      header_hash, call.now, call.overflow_checks)]
           /\ oracle' = calculate_merkle_root(oracle, transactions).o
    /\ UNCHANGED restOfValidation

\* validator.validate_transaction(&tx); call.block holds the transaction
ValidateTransactionCall ==
    /\ call.pc = "idle"
    /\ \E tx \in ValidationTxs \cup { TxMixedNoOutput } :
         call' = [call EXCEPT !.pc = "done", !.fn = "validate_transaction",
                              !.block = Block_new(HeaderA, << tx >>),
                              !.result = validate_transaction(tx)]
    /\ UNCHANGED <<oracle, restOfValidation>>

ValidationInit ==
    /\ CliVarsOff /\ api = ApiOff /\ codec = CodecIdle /\ PowVarsOff /\ wallet = WalletOff
    /\ call \in { CallIdle(now, overflow_checks) :
                    now \in NowSamples, overflow_checks \in BOOLEAN }
    /\ LaterVarsOff

ValidationNext == ValidateHeaderCall \/ ValidateBlockCall \/ ValidateTransactionCall

SpecValidation == ValidationInit /\ [][ValidationNext]_vars

HeaderCalled == call.pc = "done" /\ call.fn = "validate_header"
BlockCalled == call.pc = "done" /\ call.fn = "validate_block"

\* the first transaction with a structural error
FirstInvalid(transactions) ==
    CHOOSE i \in 1..Len(transactions) :
      /\ validate_transaction(transactions[i]) # "Ok"
      /\ \A j \in 1..(i - 1) : validate_transaction(transactions[j]) = "Ok"

\* the first violation in the order: header, NoTransactions, MissingCoinbase,
\* CoinbaseNotFirst, InvalidMerkleRoot, structural error of a transaction
FirstViolation(header_result, block, merkle_root) ==
    IF header_result # "Ok" THEN header_result
    ELSE IF Len(block.transactions) = 0 THEN "NoTransactions"
    ELSE IF ~Transaction_is_coinbase(block.transactions[1]) THEN "MissingCoinbase"
    ELSE IF \E i \in 2..Len(block.transactions) : Transaction_is_coinbase(block.transactions[i])
      THEN "CoinbaseNotFirst"
    ELSE IF merkle_root # block.header.merkle_root THEN "InvalidMerkleRoot"
    ELSE IF \E i \in 1..Len(block.transactions) :
              validate_transaction(block.transactions[i]) # "Ok"
      THEN validate_transaction(block.transactions[FirstInvalid(block.transactions)])
    ELSE "Ok"

\* C12: validate_block returns the first violation in the order header,
\* NoTransactions, MissingCoinbase, CoinbaseNotFirst, InvalidMerkleRoot, structural
\* error of a transaction, and Ok(()) iff there is none
C12_FirstViolationInOrder ==
    BlockCalled =>
      call.result =
        FirstViolation(validate_header(call.validator, call.block.header, call.header_hash,
                                       call.now, call.overflow_checks),
                       call.block, calculate_merkle_root(oracle, call.block.transactions).root)

\* a block with no coinbase, a wrong Merkle root and an empty transaction is
\* rejected with MissingCoinbase
C12_Witness ==
    /\ BlockCalled /\ call.result = "MissingCoinbase"
    /\ call.block.header.merkle_root = HashA
    /\ call.block.transactions = << TxSpend, TxEmpty >>

\* timestamp <= now + 7200, on the integers
NotTooFarAhead(timestamp, now) ==
    ~LimbsLess(Wide(AddLimbs(Limbs(U64(now)), Limbs(U64(7200)), 0)), Wide(Limbs(U64(timestamp))))

HeaderOk(header, header_hash, target_hash, now) ==
    /\ header.prev_block_hash = Hash256Zero \/ StrictlyBelow(header_hash, target_hash)
    /\ header.version # 0
    /\ NotTooFarAhead(header.timestamp, now)

---------------------------------------------------------------------------
(* consensus/validation.rs: TransactionValidator::validate_for_mempool, and *)
(* core/transaction.rs: Transaction::total_output_value. `.sum()` on u64 is *)
(* the `+` of the build: it panics on overflow with overflow checks and     *)
(* wraps without.                                                           *)

MAX_MONEY == [hi |-> 488944, lo |-> 1510424576]     \* 21_000_000 * 100_000_000

\* outputs.iter().map(|out| out.value).sum(), from the i-th output on
RECURSIVE SumOutputs(_, _, _, _)
SumOutputs(outputs, i, total, overflow_checks) ==
    IF i > Len(outputs) THEN [panic |-> FALSE, val |-> total]
    ELSE IF overflowing_add(total, outputs[i].value).overflow /\ overflow_checks
      THEN [panic |-> TRUE, val |-> U64(0)]
    ELSE SumOutputs(outputs, i + 1, overflowing_add(total, outputs[i].value).val,
                    overflow_checks)

Transaction_total_output_value(tx, overflow_checks) ==
    SumOutputs(tx.outputs, 1, U64(0), overflow_checks)

validate_for_mempool(tx, overflow_checks) ==
    IF tx.inputs = <<>> \/ tx.outputs = <<>> THEN "EmptyTransaction"
    ELSE IF Transaction_is_coinbase(tx) THEN "CoinbaseNotFirst"
    ELSE IF Transaction_total_output_value(tx, overflow_checks).panic THEN "panic"
    ELSE IF U64Less(MAX_MONEY, Transaction_total_output_value(tx, overflow_checks).val)
      THEN "OutputValueExceedsMax"
    ELSE "Ok"

MaxOutputs == 2        \* a sample transaction has 0..MaxOutputs outputs

ValueSamples ==
    { U64(0), U64(1000), MAX_MONEY, [hi |-> 488944, lo |-> 1510424577],
      [hi |-> -2147483647 - 1, lo |-> 0], U64MAX }

OutputLists ==
    UNION { [1..n -> { TxOutput_new(value, <<4, 5, 6>>) : value \in ValueSamples }] :
              n \in 0..MaxOutputs }

InputLists ==
    { <<>>, << TxInput_new(HashA, 0, <<1, 2, 3>>) >>, << TxInput_coinbase(<<1, 2, 3>>, 0) >>,
      << TxInput_new(HashA, 0, <<>>), TxInput_new(HashB, 1, <<>>) >> }

MempoolIdle(overflow_checks) ==
    [pc |-> "idle", overflow_checks |-> overflow_checks, tx |-> TxEmpty, result |-> ""]

\* TransactionValidator::validate_for_mempool(&tx)
MempoolValidate ==
    /\ call.pc = "idle"
    /\ \E inputs \in InputLists, outputs \in OutputLists :
         call' = [call EXCEPT
                    !.pc = "done", !.tx = Transaction_new(inputs, outputs),
                    !.result = validate_for_mempool(Transaction_new(inputs, outputs),
                                                    call.overflow_checks)]
    /\ UNCHANGED restOfCall

MempoolInit ==
    /\ CliVarsOff /\ api = ApiOff /\ codec = CodecIdle /\ PowVarsOff /\ wallet = WalletOff
    /\ call \in { MempoolIdle(overflow_checks) : overflow_checks \in BOOLEAN }
    /\ LaterVarsOff

MempoolNext == MempoolValidate

SpecMempool == MempoolInit /\ [][MempoolNext]_vars

\* the sum of the output values, on the integers, exceeds MAX_MONEY
ExceedsMax(tx) == LimbsLess(Wide(Limbs(MAX_MONEY)), Wide(OutputsValue(tx.outputs)))

MempoolRule(tx, result) ==
    /\ result = "Ok" => ~Transaction_is_coinbase(tx) /\ ~ExceedsMax(tx)
    /\ tx.inputs # <<>> /\ ~Transaction_is_coinbase(tx) /\ ExceedsMax(tx)
         => result = "OutputValueExceedsMax"
    /\ Transaction_is_coinbase(tx) /\ tx.outputs # <<>> => result = "CoinbaseNotFirst"

\* C14: validate_for_mempool accepts only non-coinbase transactions whose output
\* values sum to at most MAX_MONEY; a transaction whose outputs sum, on the
\* integers, to more is rejected with OutputValueExceedsMax, also when the u64 sum
\* overflows; a coinbase transaction is rejected with CoinbaseNotFirst
C14_MempoolRule ==
    call.pc = "done" => MempoolRule(call.tx, call.result)

\* what the code does instead: the rule holds for the transactions whose output
\* values sum to less than 2^64
C14_MempoolRuleUnlessOverflow ==
    call.pc = "done" /\ Len(OutputsValue(call.tx.outputs)) <= 4
      => MempoolRule(call.tx, call.result)

---------------------------------------------------------------------------
(* The Merkle specification: Block::calculate_merkle_root on a sample list  *)
(* of transactions, and then on the list with its last element appended     *)
(* once more.                                                               *)

MaxMerkleTxs == 5      \* a sample list has 0..MaxMerkleTxs transactions

MerkleTxs == { TxCoinbase, TxSpend, TxTwoInputs }

MerkleLists == UNION { [1..n -> MerkleTxs] : n \in 0..MaxMerkleTxs }

MerkleIdle ==
    [pc |-> "idle", transactions |-> <<>>, root |-> Hash256Zero, root_dup |-> Hash256Zero]

WithLastAgain(transactions) == Append(transactions, transactions[Len(transactions)])

\* Block::calculate_merkle_root(&transactions)
MerkleRoot ==
    /\ call.pc = "idle"
    /\ \E transactions \in MerkleLists :
         /\ call' = [call EXCEPT
                       !.pc = IF transactions = <<>> THEN "done" ELSE "rooted",
                       !.transactions = transactions,
                       !.root = calculate_merkle_root(oracle, transactions).root]
         /\ oracle' = calculate_merkle_root(oracle, transactions).o
    /\ UNCHANGED restOfValidation

\* Block::calculate_merkle_root of the list with its last element duplicated
MerkleRootOfDuplicated ==
    /\ call.pc = "rooted"
    /\ call' = [call EXCEPT
                  !.pc = "done",
                  !.root_dup =
                    calculate_merkle_root(oracle, WithLastAgain(call.transactions)).root]
    /\ oracle' = calculate_merkle_root(oracle, WithLastAgain(call.transactions)).o
    /\ UNCHANGED restOfValidation

MerkleInit ==
    /\ CliVarsOff /\ api = ApiOff /\ codec = CodecIdle /\ PowVarsOff /\ wallet = WalletOff
    /\ call = MerkleIdle /\ LaterVarsOff

MerkleNext == MerkleRoot \/ MerkleRootOfDuplicated

SpecMerkle == MerkleInit /\ [][MerkleNext]_vars

\* C15: for every k >= 0 a list of 2k+1 transactions has the Merkle root of the
\* same list with its last element appended once more, and the empty list has
\* the all-zero root
C15_OddListDuplicated ==
    /\ call.pc = "done" /\ Len(call.transactions) % 2 = 1 => call.root = call.root_dup
    /\ call.pc = "done" /\ call.transactions = <<>> => call.root = Hash256Zero

\* C15, amended: the same for every k >= 1; a list of one transaction has the
\* txid of the transaction as its root, and the list of the transaction twice
\* has another root
C15_OddListDuplicatedFromThree ==
    /\ call.pc = "done" /\ Len(call.transactions) % 2 = 1 /\ Len(call.transactions) >= 3
         => call.root = call.root_dup
    /\ call.pc = "done" /\ Len(call.transactions) = 1
         => /\ call.root = Transaction_txid(oracle, call.transactions[1])
            /\ call.root # call.root_dup
    /\ call.pc = "done" /\ call.transactions = <<>> => call.root = Hash256Zero

C15_Witness ==
    /\ call.pc = "done"
    /\ call.transactions = << TxCoinbase, TxSpend, TxTwoInputs >>
    /\ call.root = call.root_dup
    /\ call.root # Hash256Zero

---------------------------------------------------------------------------
(* The script specification: one call of Script::verify_p2pkh. The          *)
(* scriptSig is two length-prefixed blobs or a malformed byte string, the   *)
(* scriptPubKey is the P2PKH template around a 20-byte hash or a malformed  *)
(* byte string.                                                             *)

SecretKeys == { 170, 27 }      \* the secret keys of AddrA and AddrB
DigestSamples == { Repeat(66, 32), HashA }

SignatureBlobs ==
    { sign_ecdsa(digest, secret_key) : digest \in DigestSamples, secret_key \in SecretKeys }
      \cup { <<>>, <<1, 2, 3>> }

PubkeyBlobs ==
    { PublicKey_serialize(secret_key) : secret_key \in SecretKeys }
      \cup { <<>>, <<7, 7>>, <<2>> \o Repeat(170, 20) \o Repeat(9, 12) }

PubkeyHashes == { hash160(PublicKey_serialize(secret_key)) : secret_key \in SecretKeys }

MalformedScriptSigs == { <<>>, <<5, 1>>, <<1, 48>>, <<1, 48, 4, 2>> }

MalformedScriptPubkeys ==
    { <<>>, <<118, 169, 20>> \o Repeat(170, 20) \o <<136>>,
      <<118, 169, 20>> \o Repeat(170, 20) \o <<136, 173>> }

ScriptIdle ==
    [pc |-> "idle", well_formed |-> FALSE, signature |-> <<>>, pubkey |-> <<>>,
     pubkey_hash |-> <<>>, script_sig |-> <<>>, script_pubkey |-> <<>>,
     tx_hash |-> Hash256Zero, result |-> Err]

\* Script::verify_p2pkh(&script_sig, &script_pubkey, &tx_hash) on scripts made of
\* the given blobs
VerifyWellFormed ==
    /\ call.pc = "idle"
    /\ \E signature \in SignatureBlobs, pubkey \in PubkeyBlobs,
          pubkey_hash \in PubkeyHashes, tx_hash \in DigestSamples :
         call' = [pc |-> "done", well_formed |-> TRUE, signature |-> signature,
                  pubkey |-> pubkey, pubkey_hash |-> pubkey_hash,
                  script_sig |-> p2pkh_script_sig(signature, pubkey),
                  script_pubkey |-> p2pkh_script_pubkey(pubkey_hash),
                  tx_hash |-> tx_hash,
                  result |-> verify_p2pkh(p2pkh_script_sig(signature, pubkey),
                                          p2pkh_script_pubkey(pubkey_hash), tx_hash)]
    /\ UNCHANGED restOfCall

\* Script::verify_p2pkh on a malformed scriptSig or scriptPubKey
VerifyMalformed ==
    /\ call.pc = "idle"
    /\ \E script_sig \in MalformedScriptSigs
                           \cup { p2pkh_script_sig(sign_ecdsa(HashA, 170),
                                                   PublicKey_serialize(170)) },
          script_pubkey \in MalformedScriptPubkeys \cup { p2pkh_script_pubkey(Repeat(170, 20)) } :
         /\ script_sig \in MalformedScriptSigs \/ script_pubkey \in MalformedScriptPubkeys
         /\ call' = [ScriptIdle EXCEPT
                       !.pc = "done", !.script_sig = script_sig,
                       !.script_pubkey = script_pubkey, !.tx_hash = HashA,
                       !.result = verify_p2pkh(script_sig, script_pubkey, HashA)]
    /\ UNCHANGED restOfCall

ScriptInit ==
    /\ CliVarsOff /\ api = ApiOff /\ codec = CodecIdle /\ PowVarsOff /\ wallet = WalletOff
    /\ call = ScriptIdle /\ LaterVarsOff

ScriptNext == VerifyWellFormed \/ VerifyMalformed

SpecScript == ScriptInit /\ [][ScriptNext]_vars

\* C16: when scriptSig is two length-prefixed blobs, scriptPubKey is the P2PKH
\* template, and hash160 of the pubkey blob is not the embedded hash,
\* verify_p2pkh returns Ok(false), whatever the signature and pubkey blobs are
C16_KeyMismatchIsFalse ==
    call.pc = "done" /\ call.well_formed /\ hash160(call.pubkey) # call.pubkey_hash
      => call.result = Some(FALSE)

\* the signature blob is not DER and the pubkey blob is not a point
C16_Witness ==
    /\ call.pc = "done" /\ call.well_formed
    /\ call.signature = <<1, 2, 3>>
    /\ call.pubkey = <<7, 7>>
    /\ call.result = Some(FALSE)

---------------------------------------------------------------------------
(* The comparison specification: Target::is_valid_hash and                  *)
(* Miner::is_valid_hash_fast on one bits value and one sample hash: the     *)
(* zero hash, the all-ones hash, the decoded target, and hashes that differ *)
(* from the decoded target in one or two bytes.                             *)

OneBelow(t) == { [t EXCEPT ![i] = t[i] - 1] : i \in { j \in 1..32 : t[j] > 0 } }

OneAbove(t) == { [t EXCEPT ![i] = t[i] + 1] : i \in { j \in {1, 16, 32} : t[j] < 255 } }

\* one below the target in a byte and 255 in the last byte, or one above in the
\* first byte and one below in a later one
Mixed(t) ==
    { [t EXCEPT ![i] = t[i] - 1, ![32] = 255] : i \in { j \in 1..31 : t[j] > 0 } }
      \cup { [t EXCEPT ![1] = t[1] + 1, ![i] = t[i] - 1] :
               i \in { j \in 2..32 : t[1] < 255 /\ t[j] > 0 } }

CompareHashes(bits) ==
    HashChoices(bits) \cup OneBelow(Target_to_hash256(bits))
      \cup OneAbove(Target_to_hash256(bits)) \cup Mixed(Target_to_hash256(bits))

CompareIdle ==
    [pc |-> "idle", bits |-> 0, hash |-> Hash256Zero, is_valid_hash |-> FALSE,
     is_valid_hash_fast |-> FALSE]

\* Target::from_bits(bits).is_valid_hash(&hash)
CompareTarget ==
    /\ call.pc = "idle"
    /\ \E bits \in BitsSamples :
         \E hash \in CompareHashes(bits) :
           call' = [call EXCEPT !.pc = "compared", !.bits = bits, !.hash = hash,
                                !.is_valid_hash = Target_is_valid_hash(bits, hash)]
    /\ UNCHANGED restOfCall

\* Miner::new(bits).is_valid_hash_fast(&hash)
CompareMiner ==
    /\ call.pc = "compared"
    /\ call' = [call EXCEPT
                  !.pc = "done",
                  !.is_valid_hash_fast =
                    Miner_is_valid_hash_fast(Miner_new(call.bits), call.hash)]
    /\ UNCHANGED restOfCall

CompareInit ==
    /\ CliVarsOff /\ api = ApiOff /\ codec = CodecIdle /\ PowVarsOff /\ wallet = WalletOff
    /\ call = CompareIdle /\ LaterVarsOff

CompareNext == CompareTarget \/ CompareMiner

SpecCompare == CompareInit /\ [][CompareNext]_vars

\* C17: is_valid_hash and is_valid_hash_fast return true exactly when the hash,
\* as a big-endian 256-bit integer, is strictly below the decoded target; a hash
\* equal to the target is rejected and the zero hash is accepted for every
\* non-zero target
C17_ValidIffBelowTarget ==
    call.pc = "done" =>
      /\ call.is_valid_hash <=> StrictlyBelow(call.hash, Target_to_hash256(call.bits))
      /\ call.is_valid_hash_fast <=> StrictlyBelow(call.hash, Target_to_hash256(call.bits))
      /\ call.hash = Target_to_hash256(call.bits)
           => ~call.is_valid_hash /\ ~call.is_valid_hash_fast
      /\ call.hash = Hash256Zero /\ Target_to_hash256(call.bits) # Hash256Zero
           => call.is_valid_hash /\ call.is_valid_hash_fast

\* a hash one below the target in its last non-zero byte and 255 in its last
\* byte is accepted by both
C17_Witness ==
    /\ call.pc = "done" /\ call.bits = 486604799
    /\ call.hash = [Target_to_hash256(486604799) EXCEPT ![5] = 254, ![32] = 255]
    /\ call.is_valid_hash /\ call.is_valid_hash_fast

---------------------------------------------------------------------------
(* The varint specification: write_varint on a sample value, then           *)
(* read_varint on the bytes written, followed by other bytes or cut short.  *)

VarintValues ==
    { U64(0), U64(1), U64(100), U64(252), U64(253), U64(254), U64(255), U64(1000),
      U64(65535), U64(65536), U64(70000), U64(2147483647), [hi |-> 0, lo |-> -2147483647 - 1],
      [hi |-> 0, lo |-> -1], [hi |-> 1, lo |-> 0], BLOCK_REWARD,
      [hi |-> -2147483647 - 1, lo |-> 0], U64MAX }

Trailers == { <<>>, <<7, 7>> }

VarintIdle ==
    [pc |-> "idle", value |-> U64(0), bytes |-> <<>>, data |-> <<>>, cut |-> FALSE,
     result |-> Fail(0)]

\* write_varint(&mut buf, value)
VarintWrite ==
    /\ call.pc = "idle"
    /\ \E value \in VarintValues :
         call' = [call EXCEPT !.pc = "written", !.value = value,
                              !.bytes = write_varint(value)]
    /\ UNCHANGED restOfCall

\* read_varint on the bytes written and a trailer
VarintRead ==
    /\ call.pc = "written"
    /\ \E trailer \in Trailers :
         call' = [call EXCEPT !.pc = "done", !.data = call.bytes \o trailer,
                              !.result = read_varint(call.bytes \o trailer, 0)]
    /\ UNCHANGED restOfCall

\* read_varint on a proper prefix of the bytes written
VarintReadTruncated ==
    /\ call.pc = "written"
    /\ \E n \in 0..(Len(call.bytes) - 1) :
         call' = [call EXCEPT !.pc = "done", !.cut = TRUE,
                              !.data = SubSeq(call.bytes, 1, n),
                              !.result = read_varint(SubSeq(call.bytes, 1, n), 0)]
    /\ UNCHANGED restOfCall

VarintInit ==
    /\ CliVarsOff /\ api = ApiOff /\ codec = CodecIdle /\ PowVarsOff /\ wallet = WalletOff
    /\ call = VarintIdle /\ LaterVarsOff

VarintNext == VarintWrite \/ VarintRead \/ VarintReadTruncated

SpecVarint == VarintInit /\ [][VarintNext]_vars

\* 1 byte up to 0xFC, 3 up to 0xFFFF, 5 up to 0xFFFFFFFF, 9 above
ShortestLength(value) ==
    IF ~U64Less(U64(252), value) THEN 1
    ELSE IF ~U64Less(U64(65535), value) THEN 3
    ELSE IF ~U64Less([hi |-> 0, lo |-> -1], value) THEN 5
    ELSE 9

\* C18: read_varint on the bytes of write_varint(n) returns n and consumes
\* exactly those bytes; the bytes are the shortest form for n; and read_varint
\* on a truncated input returns an error
C18_VarintRoundTrip ==
    /\ call.pc \in {"written", "done"} => Len(call.bytes) = ShortestLength(call.value)
    /\ call.pc = "done" /\ ~call.cut
         => call.result = Ok(call.value, Len(call.bytes))
    /\ call.pc = "done" /\ call.cut => ~call.result.ok

\* 2^32 is written in nine bytes and read back from them with a trailer behind
C18_Witness ==
    /\ call.pc = "done" /\ ~call.cut
    /\ call.value = [hi |-> 1, lo |-> 0]
    /\ call.data = <<255, 0, 0, 0, 0, 1, 0, 0, 0, 7, 7>>
    /\ call.result = Ok([hi |-> 1, lo |-> 0], 9)

---------------------------------------------------------------------------
(* The transaction specification: Transaction::serialize on a sample        *)
(* transaction, Transaction::deserialize on the bytes, and the txid of the  *)
(* transaction and of the decoded one. The samples have scripts of 0, 3 and *)
(* 253 bytes (a three-byte length); the input and output counts are read by *)
(* the same read_varint as the script lengths.                              *)

MaxIns == 2            \* a sample transaction has 0..MaxIns inputs and outputs

InputSamples ==
    { TxInput_new(HashA, 0, <<1, 2, 3>>), TxInput_coinbase(<<4, 5, 6>>, 0),
      [TxInput_new(HashB, U32Max, Repeat(171, 253)) EXCEPT !.sequence = 7] }

OutputSamples ==
    { TxOutput_new(U64(1000), <<4, 5, 6>>), TxOutput_new(U64MAX, <<>>),
      TxOutput_new(BLOCK_REWARD, Repeat(172, 253)) }

TxCodecSamples ==
    { [version |-> version, inputs |-> inputs, outputs |-> outputs, lock_time |-> lock_time] :
        version \in { 1, U32Max }, lock_time \in { 0, 500000 },
        inputs \in UNION { [1..n -> InputSamples] : n \in 0..MaxIns },
        outputs \in UNION { [1..n -> OutputSamples] : n \in 0..MaxIns } }

TxCodecIdle ==
    [pc |-> "idle", tx |-> TxEmpty, data |-> <<>>, result |-> Fail(0),
     txid |-> Hash256Zero, decoded_txid |-> Hash256Zero]

\* tx.serialize()
TxSerialize ==
    /\ call.pc = "idle"
    /\ \E tx \in TxCodecSamples :
         call' = [call EXCEPT !.pc = "serialized", !.tx = tx,
                              !.data = Transaction_serialize(tx)]
    /\ UNCHANGED restOfCall

\* Transaction::deserialize(&data)
TxDeserialize ==
    /\ call.pc = "serialized"
    /\ call' = [call EXCEPT !.pc = "decoded", !.result = Transaction_deserialize(call.data)]
    /\ UNCHANGED restOfCall

\* tx.txid() and the txid of the decoded transaction
TxIds ==
    /\ call.pc = "decoded" /\ call.result.ok
    /\ oracle' = Intern(Intern(oracle, Transaction_serialize(call.tx)),
                        Transaction_serialize(call.result.val))
    /\ call' = [call EXCEPT !.pc = "done",
                            !.txid = Transaction_txid(oracle', call.tx),
                            !.decoded_txid = Transaction_txid(oracle', call.result.val)]
    /\ UNCHANGED restOfValidation

TxCodecInit ==
    /\ CliVarsOff /\ api = ApiOff /\ codec = CodecIdle /\ PowVarsOff /\ wallet = WalletOff
    /\ call = TxCodecIdle /\ LaterVarsOff

TxCodecNext == TxSerialize \/ TxDeserialize \/ TxIds

SpecTxCodec == TxCodecInit /\ [][TxCodecNext]_vars

\* C19: Transaction::deserialize(t.serialize()) returns Ok(t), and the txid of the
\* decoded transaction is txid(t)
C19_TransactionRoundTrip ==
    /\ call.pc \in {"decoded", "done"}
         => call.result.ok /\ call.result.val = call.tx
    /\ call.pc = "done" => call.txid = call.decoded_txid

\* a transaction with a 253-byte scriptSig and a 253-byte scriptPubKey
C19_Witness ==
    /\ call.pc = "done"
    /\ Len(call.tx.inputs) = 2 /\ Len(call.tx.inputs[2].script_sig) = 253
    /\ Len(call.tx.outputs) = 2 /\ Len(call.tx.outputs[1].script_pubkey) = 253
    /\ call.result.val = call.tx /\ call.txid = call.decoded_txid

---------------------------------------------------------------------------
(* SpecGpuFair: SpecGpu where the program keeps running. mine_gpu is one    *)
(* sequential loop whose only wait is device.poll(Maintain::Wait), which    *)
(* returns when the submitted batch is done, so a step that can be taken is *)
(* taken.                                                                   *)

SpecGpuFair == GpuInit /\ [][GpuNext]_vars /\ WF_vars(GpuNext)

\* mine_gpu has returned: an Err (the caller falls back to the CPU) or a result
GpuReturned == gpu.pc \in {"fallback", "cpu", "done"}

\* mine_gpu has returned Ok with success = false
GpuExhausted == gpu.pc = "done" /\ miner = MinerOff /\ ~gpu.result.success

\* the k-th batch starts at k * nonces_per_dispatch and no worker's nonce wraps
BatchInOrder ==
    gpu.pc = "batch" =>
      /\ gpu.start_nonce = gpu.total_attempts
      /\ gpu.start_nonce + (nonces_per_dispatch - 1) <= NonceMax

\* every nonce has been hashed by exactly one worker of exactly one batch
EveryNonceOnce ==
    /\ \A n \in 0..NonceMax : gpu.tried[n] = 1
    /\ gpu.total_attempts = NonceMax + 1

\* C20: mine_gpu returns; its batches start at 0, nonces_per_dispatch,
\* 2 * nonces_per_dispatch, ... and no worker's nonce wraps around; when it
\* returns success = false, every nonce of the nonce space has been tried by
\* exactly one worker of exactly one batch.
C20_GpuTerminates ==
    /\ [](gpu.pc # "off" => BatchInOrder /\ (GpuExhausted => EveryNonceOnce))
    /\ <>GpuReturned

\* the nonce space is exhausted, the last batch having claimed a nonce that
\* neither verified nor was followed by one that did
C20_Witness ==
    /\ gpu.pc = "done" /\ miner = MinerOff /\ ~gpu.result.success
    /\ gpu.report.found # 0
    /\ gpu.start_nonce = NonceMax + 1 - nonces_per_dispatch
    /\ gpu.start_nonce > 0
    /\ EveryNonceOnce

---------------------------------------------------------------------------
(* The shader specification: one dispatch of SHADER_SRC main. Every worker  *)
(* computes its hash, and a worker whose hash is below the target reads     *)
(* result.found and, having read 0, writes result.found and then            *)
(* result.nonce. `result` is a plain storage buffer (var<storage,           *)
(* read_write>, no atomic type), so the reads and writes of the workers     *)
(* interleave freely. After the last worker the host maps the buffer.       *)

ShaderWorkers == 3     \* workers of the dispatch: gid.x in 0..ShaderWorkers - 1

restOfShader ==
    <<cliVars, api, codec, target, mining, miner, gpu, wallet, call, durable, net>>

Gids == 0..(ShaderWorkers - 1)

\* the host has cleared the result buffer and submitted the batch; below[gid]
\* says whether the hash of worker gid is below the target
ShaderStart(start_nonce, below) ==
    [pc |-> "running", start_nonce |-> start_nonce, below |-> below,
     worker |-> [gid \in Gids |-> "compute"],
     result |-> [found |-> 0, nonce |-> 0],
     first |-> None, report |-> [found |-> 0, nonce |-> 0]]

\* `let nonce = ...; var hash = sha256d(nonce); ...; var below = ...`
ShaderCompute(gid) ==
    /\ shader.pc = "running" /\ shader.worker[gid] = "compute"
    /\ shader' = [shader EXCEPT !.worker[gid] = "test"]
    /\ UNCHANGED restOfShader

\* `if below && result.found == 0u`: the read of result.found
ShaderTest(gid) ==
    /\ shader.pc = "running" /\ shader.worker[gid] = "test"
    /\ shader' = [shader EXCEPT
                    !.worker[gid] = IF shader.below[gid] /\ shader.result.found = 0
                                    THEN "write_found" ELSE "done"]
    /\ UNCHANGED restOfShader

\* `result.found = 1u;`
ShaderWriteFound(gid) ==
    /\ shader.pc = "running" /\ shader.worker[gid] = "write_found"
    /\ shader' = [shader EXCEPT !.worker[gid] = "write_nonce", !.result.found = 1]
    /\ UNCHANGED restOfShader

\* `result.nonce = nonce;` (first: the nonce of the first worker to write one)
ShaderWriteNonce(gid) ==
    /\ shader.pc = "running" /\ shader.worker[gid] = "write_nonce"
    /\ shader' = [shader EXCEPT
                    !.worker[gid] = "done",
                    !.result.nonce = ShaderNonce(shader.start_nonce, gid),
                    !.first = IF shader.first.some THEN @
                              ELSE Some(ShaderNonce(shader.start_nonce, gid))]
    /\ UNCHANGED restOfShader

\* device.poll(Maintain::Wait) has returned: the host reads the staging buffer
ShaderReadback ==
    /\ shader.pc = "running"
    /\ \A gid \in Gids : shader.worker[gid] = "done"
    /\ shader' = [shader EXCEPT !.pc = "read", !.report = shader.result]
    /\ UNCHANGED restOfShader

ShaderInit ==
    /\ CliVarsOff /\ api = ApiOff /\ codec = CodecIdle /\ PowVarsOff /\ wallet = WalletOff
    /\ call = CallOff /\ durable = DurableOff /\ net = NetOff
    /\ shader \in { ShaderStart(0, below) : below \in [Gids -> BOOLEAN] }

ShaderNext ==
    \/ \E gid \in Gids : ShaderCompute(gid)
    \/ \E gid \in Gids : ShaderTest(gid)
    \/ \E gid \in Gids : ShaderWriteFound(gid)
    \/ \E gid \in Gids : ShaderWriteNonce(gid)
    \/ ShaderReadback

SpecShader == ShaderInit /\ [][ShaderNext]_vars

\* C21: once a worker has written its nonce, result.nonce stays that nonce, and
\* it is the nonce the host reads
C21_FirstWinnerKept ==
    shader.pc \in {"running", "read"} /\ shader.first.some =>
      /\ shader.result.nonce = shader.first.val
      /\ shader.pc = "read" => shader.report.nonce = shader.first.val

\* the host reads found = 1 and the nonce of a worker whose hash is below the
\* target (what the race leaves standing)
C21_ReportIsAWinner ==
    shader.pc = "read" =>
      IF \E gid \in Gids : shader.below[gid]
      THEN /\ shader.report.found = 1
           /\ \E gid \in Gids :
                shader.below[gid] /\ shader.report.nonce = ShaderNonce(shader.start_nonce, gid)
      ELSE shader.report.found = 0

---------------------------------------------------------------------------
(* The crash specification: the loop of CliHandler::mine, one step per call *)
(* on a store, in a process that can crash and be started again.            *)
(* `blockchain` and `utxo_set` are the trees as the running process reads   *)
(* them; durable.blockchain and durable.utxo_set are their images on disk.  *)
(* Db::flush makes the image the tree. A write that is not flushed reaches  *)
(* the disk when sled writes its buffer out, or is lost when the process    *)
(* crashes first: both are possible. The chain starts as `init` leaves it.  *)

MaxCrashes == 2        \* crashes of the process

restOfCrash ==
    <<keystore, cmd, api, codec, target, mining, miner, gpu, wallet, call, shader, net>>

\* sled::Db::flush: the image on disk becomes the tree
Db_flush_nothing(disk, tree) == disk

Db_flush(disk, tree) == tree

\* the stores and the oracle after CliHandler::init
AfterInit ==
    LET g == Block_genesis(<<>>)
        genesis == g.block
        o == Intern(g.o, BlockHeader_serialize(genesis.header))
        hash == Block_hash(o, genesis)
        coinbase_tx == genesis.transactions[1]
        outpoint == OutPoint_new(Transaction_txid(o, coinbase_tx), 0)
        utxo == Utxo_new(coinbase_tx.outputs[1], 0, TRUE)
    IN [oracle |-> o,
        blockchain |-> store_chain_height(
                         store_tip(
                           store_height(store_block(o, DbEmpty, genesis), 0, hash),
                           hash),
                         1),
        utxo_set |-> add_utxo(DbEmpty, outpoint, utxo)]

\* one iteration of the loop of CliHandler::mine up to the mined block: the
\* block, its hash, its height and the coinbase UTXO to register
MineBlock(o, db, reward_addr, timestamp, nonce) ==
    LET pubkey_hash == Address_to_pubkey_hash(reward_addr).val
        reward_script == p2pkh_script_pubkey(pubkey_hash)
        prev_hash == get_tip(db).val
        new_height == get_chain_height(db).val
        coinbase_tx == Transaction_coinbase(CoinbaseScript(new_height),
                                            TxOutput_new(BLOCK_REWARD, reward_script),
                                            new_height)
        mr == calculate_merkle_root(o, << coinbase_tx >>)
        header == BlockHeader_new(1, prev_hash, mr.root, timestamp, Bits, nonce)
        block == Block_new(header, << coinbase_tx >>)
        oo == Intern(mr.o, BlockHeader_serialize(header))
    IN [o |-> oo, block |-> block, block_hash |-> Block_hash(oo, block),
        new_height |-> new_height,
        outpoint |-> OutPoint_new(Transaction_txid(oo, coinbase_tx), 0),
        utxo |-> Utxo_new(coinbase_tx.outputs[1], new_height, TRUE)]

NoIteration == [o |-> <<>>]

Running == durable.pc \notin {"off", "crashed"}

\* the loop body up to `let block_hash = block.hash();`
CrashMineBuild ==
    /\ durable.pc = "loop"
    /\ get_tip(blockchain).some
    /\ get_chain_height(blockchain).ok /\ get_chain_height(blockchain).val <= MaxBlocks
    /\ durable' = [durable EXCEPT !.pc = "store_block",
                                  !.iter = MineBlock(oracle, blockchain, AddrB, 1, 0)]
    /\ oracle' = durable'.iter.o
    /\ stored' = stored \cup { << durable'.iter.new_height, durable'.iter.block >> }
    /\ UNCHANGED <<blockchain, utxo_set, restOfCrash>>

\* self.storage.blockchain.store_block(&block)?
CrashStoreBlock ==
    /\ durable.pc = "store_block"
    /\ blockchain' = store_block(oracle, blockchain, durable.iter.block)
    /\ durable' = [durable EXCEPT !.pc = "store_height"]
    /\ UNCHANGED <<utxo_set, oracle, stored, restOfCrash>>

\* self.storage.blockchain.store_height(new_height, &block_hash)?
CrashStoreHeight ==
    /\ durable.pc = "store_height"
    /\ blockchain' = store_height(blockchain, durable.iter.new_height, durable.iter.block_hash)
    /\ durable' = [durable EXCEPT !.pc = "store_tip"]
    /\ UNCHANGED <<utxo_set, oracle, stored, restOfCrash>>

\* self.storage.blockchain.store_tip(&block_hash)?
CrashStoreTip ==
    /\ durable.pc = "store_tip"
    /\ blockchain' = store_tip(blockchain, durable.iter.block_hash)
    /\ durable' = [durable EXCEPT !.pc = "store_chain_height"]
    /\ UNCHANGED <<utxo_set, oracle, stored, restOfCrash>>

\* self.storage.blockchain.store_chain_height(new_height + 1)?
CrashStoreChainHeight ==
    /\ durable.pc = "store_chain_height"
    /\ blockchain' = store_chain_height(blockchain, NextChainHeight(durable.iter.new_height))
    /\ durable' = [durable EXCEPT !.pc = "add_utxo"]
    /\ UNCHANGED <<utxo_set, oracle, stored, restOfCrash>>

\* UtxoSet::add_utxo: self.db.insert(key, value)
CrashUtxoInsert ==
    /\ durable.pc = "add_utxo"
    /\ utxo_set' = add_utxo(utxo_set, durable.iter.outpoint, durable.iter.utxo)
    /\ durable' = [durable EXCEPT !.pc = "add_utxo_flush"]
    /\ UNCHANGED <<blockchain, oracle, stored, restOfCrash>>

\* UtxoSet::add_utxo: self.db.flush(), and Ok(())
CrashUtxoFlush ==
    /\ durable.pc = "add_utxo_flush"
    /\ durable' = [durable EXCEPT !.pc = "flush_blockchain",
                                  !.utxo_set = Db_flush(@, utxo_set)]
    /\ UNCHANGED <<blockchain, utxo_set, oracle, stored, restOfCrash>>

\* self.storage.blockchain.flush()?
CrashFlushBlockchain ==
    /\ durable.pc = "flush_blockchain"
    /\ durable' = [durable EXCEPT !.pc = "flush_utxo",
                                  !.blockchain = Db_flush(@, blockchain)]
    /\ UNCHANGED <<blockchain, utxo_set, oracle, stored, restOfCrash>>

\* self.storage.utxo_set.flush()?, and the end of the iteration
CrashFlushUtxo ==
    /\ durable.pc = "flush_utxo"
    /\ durable' = [durable EXCEPT !.pc = "loop", !.iter = NoIteration,
                                  !.utxo_set = Db_flush(@, utxo_set)]
    /\ UNCHANGED <<blockchain, utxo_set, oracle, stored, restOfCrash>>

\* UtxoSet::remove_utxo of an outpoint of the set: self.db.remove(&key)
CrashUtxoRemove ==
    /\ durable.pc = "loop"
    /\ \E p \in stored :
         /\ has_utxo(utxo_set, CoinbaseOutPoint(p[2]))
         /\ utxo_set' = remove_utxo(utxo_set, CoinbaseOutPoint(p[2]))
    /\ durable' = [durable EXCEPT !.pc = "remove_utxo_flush"]
    /\ UNCHANGED <<blockchain, oracle, stored, restOfCrash>>

\* UtxoSet::remove_utxo: self.db.flush(), and Ok(existed)
CrashRemoveFlush ==
    /\ durable.pc = "remove_utxo_flush"
    /\ durable' = [durable EXCEPT !.pc = "loop", !.utxo_set = Db_flush(@, utxo_set)]
    /\ UNCHANGED <<blockchain, utxo_set, oracle, stored, restOfCrash>>

\* sled writes the buffered writes of the block store out
WriteOutBlockchain ==
    /\ Running
    /\ durable.blockchain # blockchain
    /\ durable' = [durable EXCEPT !.blockchain = blockchain]
    /\ UNCHANGED <<blockchain, utxo_set, oracle, stored, restOfCrash>>

\* sled writes the buffered writes of the UTXO store out
WriteOutUtxoSet ==
    /\ Running
    /\ durable.utxo_set # utxo_set
    /\ durable' = [durable EXCEPT !.utxo_set = utxo_set]
    /\ UNCHANGED <<blockchain, utxo_set, oracle, stored, restOfCrash>>

\* the process dies: what was not written out is lost
Crash ==
    /\ Running
    /\ durable.crashes < MaxCrashes
    /\ durable' = [durable EXCEPT !.pc = "crashed", !.iter = NoIteration,
                                  !.crashes = @ + 1]
    /\ blockchain' = durable.blockchain
    /\ utxo_set' = durable.utxo_set
    /\ UNCHANGED <<oracle, stored, restOfCrash>>

\* Storage::new opens both trees again, and `mine` is run again
Restart ==
    /\ durable.pc = "crashed"
    /\ durable' = [durable EXCEPT !.pc = "loop"]
    /\ UNCHANGED <<blockchain, utxo_set, oracle, stored, restOfCrash>>

CrashInit ==
    /\ blockchain = AfterInit.blockchain
    /\ utxo_set = AfterInit.utxo_set
    /\ oracle = AfterInit.oracle
    /\ keystore = KeystoreOff /\ cmd = CmdOff /\ stored = {}
    /\ api = ApiOff /\ codec = CodecIdle /\ PowVarsOff /\ wallet = WalletOff
    /\ call = CallOff /\ shader = ShaderOff /\ net = NetOff
    /\ durable = [pc |-> "loop", blockchain |-> AfterInit.blockchain,
                  utxo_set |-> AfterInit.utxo_set, iter |-> NoIteration, crashes |-> 0]

CrashNext ==
    \/ CrashMineBuild
    \/ CrashStoreBlock
    \/ CrashStoreHeight
    \/ CrashStoreTip
    \/ CrashStoreChainHeight
    \/ CrashUtxoInsert
    \/ CrashUtxoFlush
    \/ CrashFlushBlockchain
    \/ CrashFlushUtxo
    \/ CrashUtxoRemove
    \/ CrashRemoveFlush
    \/ WriteOutBlockchain
    \/ WriteOutUtxoSet
    \/ Crash
    \/ Restart

SpecCrash == CrashInit /\ [][CrashNext]_vars

\* add_utxo or remove_utxo is between its write and its flush
InUtxoCall == durable.pc \in {"add_utxo_flush", "remove_utxo_flush"}

\* a store_* call of the block store returns
StoreReturns ==
    /\ durable.pc \in {"store_block", "store_height", "store_tip", "store_chain_height"}
    /\ durable'.pc \notin {durable.pc, "crashed"}

\* the coinbase UTXO of a mined block is on disk, the block is not
UtxoWithoutBlock(p) ==
    /\ has_utxo(durable.utxo_set, CoinbaseOutPoint(p[2]))
    /\ ~has_block(durable.blockchain, Block_hash(oracle, p[2]))
    /\ get_hash_by_height(durable.blockchain, p[1]) = None
    /\ get_tip(durable.blockchain) # Some(Block_hash(oracle, p[2]))

\* a mined block is on disk and is the tip, its coinbase UTXO is not on disk
BlockWithoutUtxo(p) ==
    /\ has_block(durable.blockchain, Block_hash(oracle, p[2]))
    /\ get_tip(durable.blockchain) = Some(Block_hash(oracle, p[2]))
    /\ ~has_utxo(durable.utxo_set, CoinbaseOutPoint(p[2]))

\* C23: outside a call of add_utxo or remove_utxo the UTXO tree is on disk as
\* the process reads it (the call returns Ok only after its flush), and a
\* store_block, store_height, store_tip or store_chain_height call returns
\* without changing what of the block store is on disk.
C23_FlushDiscipline ==
    /\ [](Running /\ ~InUtxoCall => durable.utxo_set = utxo_set)
    /\ [][StoreReturns => durable'.blockchain = durable.blockchain]_vars

\* after two crashes of `mine` the disk holds a mined block that is the tip and
\* has no coinbase UTXO (a crash before add_utxo), and the coinbase UTXO of a
\* later block that is not there (a crash after add_utxo and before
\* blockchain.flush)
C23_Witness ==
    /\ durable.pc = "crashed"
    /\ \E p \in stored : UtxoWithoutBlock(p)
    /\ \E p \in stored : BlockWithoutUtxo(p)

---------------------------------------------------------------------------
(* The keystore specification: Keystore::new() followed by any calls of     *)
(* new_address and set_default. `call` holds the last call: its argument or *)
(* returned address, its result and the keystore it was made on.            *)

restOfKeystore ==
    <<blockchain, utxo_set, oracle, cmd, stored, api, codec, target, mining, miner, gpu,
      wallet, laterVars>>

AddrC == [i \in 1..40 |-> IF i % 2 = 1 THEN 99 ELSE 50]

AddrD == [i \in 1..40 |-> IF i % 2 = 1 THEN 100 ELSE 52]

\* the addresses KeyPair::generate may yield
KeystoreAddresses == {AddrA, AddrB, AddrC, AddrD}

\* the addresses set_default may be given
SetDefaultAddresses == KeystoreAddresses \cup {AddrShort}

KeystoreIdle == [pc |-> "new", address |-> <<>>, ok |-> TRUE, before |-> Keystore_new]

\* let address = keystore.new_address();
KeystoreNewAddress ==
    \E address \in KeystoreAddresses :
      /\ keystore' = Keystore_new_address(keystore, address)
      /\ call' = [pc |-> "new_address", address |-> address, ok |-> TRUE,
                  before |-> keystore]
      /\ UNCHANGED restOfKeystore

\* keystore.set_default(address)
KeystoreSetDefault ==
    \E address \in SetDefaultAddresses :
      /\ keystore' = Keystore_set_default(keystore, address).ks
      /\ call' = [pc |-> "set_default", address |-> address,
                  ok |-> Keystore_set_default(keystore, address).ok,
                  before |-> keystore]
      /\ UNCHANGED restOfKeystore

KeystoreInit ==
    /\ blockchain = DbEmpty /\ utxo_set = DbEmpty /\ oracle = <<>>
    /\ keystore = Keystore_new /\ cmd = CmdOff /\ stored = {}
    /\ api = ApiOff /\ codec = CodecIdle /\ PowVarsOff /\ wallet = WalletOff
    /\ call = KeystoreIdle /\ LaterVarsOff

KeystoreNext == KeystoreNewAddress \/ KeystoreSetDefault

SpecKeystore == KeystoreInit /\ [][KeystoreNext]_vars

\* C24: the default is None iff the keystore holds no address; a set default
\* names an address of the keystore; the first new_address makes the address it
\* returns the default and a later one leaves the default as it was;
\* set_default of an address that is not in the keystore returns Err and leaves
\* the keystore as it was, and of one that is returns Ok and makes it the default.
C24_KeystoreDefault ==
    /\ ~keystore.default_address.some <=> keystore.keys = {}
    /\ keystore.default_address.some => keystore.default_address.val \in keystore.keys
    /\ call.pc = "new_address" =>
         /\ call.address \in keystore.keys
         /\ keystore.default_address =
              IF call.before.keys = {} THEN Some(call.address)
              ELSE call.before.default_address
    /\ call.pc = "set_default" =>
         IF call.address \in call.before.keys
         THEN call.ok /\ keystore.default_address = Some(call.address)
                      /\ keystore.keys = call.before.keys
         ELSE ~call.ok /\ keystore = call.before

\* set_default of an address that is not in a keystore of two addresses, whose
\* default is the first one created
C24_Witness ==
    /\ call.pc = "set_default" /\ ~call.ok
    /\ Cardinality(keystore.keys) = 2
    /\ call.address \notin keystore.keys
    /\ keystore.default_address.some

---------------------------------------------------------------------------
(* The UTXO set specification: any calls of add_utxo and remove_utxo on an  *)
(* empty UtxoSet. call.entries is the set as a map from outpoint to UTXO,   *)
(* kept beside the tree of encoded keys and values; get_balance and         *)
(* get_utxos_for_script are read off the tree. `balance += value` on u64    *)
(* panics on overflow with overflow checks and wraps without them.          *)

restOfUtxo ==
    <<blockchain, oracle, keystore, cmd, stored, api, codec, target, mining, miner, gpu,
      wallet, laterVars>>

RECURSIVE BalanceLoop(_, _, _, _, _)
BalanceLoop(db, keys, script_pubkey, balance, overflow_checks) ==
    IF keys = <<>> THEN [status |-> "ok", val |-> balance]
    ELSE IF ~Utxo_from_bytes(db[Head(keys)]).ok THEN [status |-> "err", val |-> U64(0)]
    ELSE IF Utxo_from_bytes(db[Head(keys)]).val.output.script_pubkey # script_pubkey
      THEN BalanceLoop(db, Tail(keys), script_pubkey, balance, overflow_checks)
    ELSE IF overflowing_add(balance, Utxo_from_bytes(db[Head(keys)]).val.output.value).overflow
            /\ overflow_checks
      THEN [status |-> "panic", val |-> U64(0)]
    ELSE BalanceLoop(db, Tail(keys), script_pubkey,
                     overflowing_add(balance,
                                     Utxo_from_bytes(db[Head(keys)]).val.output.value).val,
                     overflow_checks)

\* UtxoSet::get_balance
get_balance(db, script_pubkey, overflow_checks) ==
    BalanceLoop(db, SortedKeys(DOMAIN db), script_pubkey, U64(0), overflow_checks)

OutPointSamples == { OutPoint_new(HashA, 0), OutPoint_new(HashA, 1), OutPoint_new(HashB, 0) }

ScriptSamples == { SenderScript, <<>> }

UtxoValues == { U64(5), BLOCK_REWARD, [hi |-> -2147483647 - 1, lo |-> 0] }

UtxoChoices ==
    { Utxo_new(TxOutput_new(value, script), 1, FALSE) :
        value \in UtxoValues, script \in ScriptSamples }

UtxoIdle == [pc |-> "new", outpoint |-> OutPoint_new(Hash256Zero, 0), entries |-> DbEmpty]

\* utxo_set.add_utxo(&outpoint, &utxo)
UtxoAdd ==
    \E outpoint \in OutPointSamples, utxo \in UtxoChoices :
      /\ utxo_set' = add_utxo(utxo_set, outpoint, utxo)
      /\ call' = [pc |-> "add_utxo", outpoint |-> outpoint,
                  entries |-> DbInsert(call.entries, outpoint, utxo)]
      /\ UNCHANGED restOfUtxo

\* utxo_set.remove_utxo(&outpoint)
UtxoRemove ==
    \E outpoint \in OutPointSamples :
      /\ utxo_set' = remove_utxo(utxo_set, outpoint)
      /\ call' = [pc |-> "remove_utxo", outpoint |-> outpoint,
                  entries |-> DbRemove(call.entries, outpoint)]
      /\ UNCHANGED restOfUtxo

UtxoInit ==
    /\ blockchain = DbEmpty /\ utxo_set = DbEmpty /\ oracle = <<>>
    /\ keystore = KeystoreOff /\ cmd = CmdOff /\ stored = {}
    /\ api = ApiOff /\ codec = CodecIdle /\ PowVarsOff /\ wallet = WalletOff
    /\ call = UtxoIdle /\ LaterVarsOff

UtxoNext == UtxoAdd \/ UtxoRemove

SpecUtxo == UtxoInit /\ [][UtxoNext]_vars

\* the outpoints of the set whose UTXO pays to script s
PayingTo(s) == { o \in DOMAIN call.entries : call.entries[o].output.script_pubkey = s }

\* the sum of the values of the UTXOs at the outpoints, as limbs
RECURSIVE ValueOf(_)
ValueOf(outpoints) ==
    IF outpoints = {} THEN <<>>
    ELSE LET o == CHOOSE x \in outpoints : TRUE
         IN AddLimbs(Limbs(call.entries[o].output.value), ValueOf(outpoints \ {o}), 0)

\* get_balance(s) is Ok of the sum of the values of the UTXOs paying to s
BalanceIsSum(s, overflow_checks) ==
    /\ get_balance(utxo_set, s, overflow_checks).status = "ok"
    /\ Wide(Limbs(get_balance(utxo_set, s, overflow_checks).val)) = Wide(ValueOf(PayingTo(s)))

\* get_utxos_for_script(s) is Ok of exactly the outpoint/UTXO pairs paying to s,
\* each once
UtxosAreThose(s) ==
    /\ get_utxos_for_script(utxo_set, s).ok
    /\ { get_utxos_for_script(utxo_set, s).val[i] :
           i \in 1..Len(get_utxos_for_script(utxo_set, s).val) }
         = { [outpoint |-> o, utxo |-> call.entries[o]] : o \in PayingTo(s) }
    /\ Len(get_utxos_for_script(utxo_set, s).val) = Cardinality(PayingTo(s))

\* has_utxo and get_utxo read the set
SetIsRead ==
    \A o \in OutPointSamples :
      /\ has_utxo(utxo_set, o) <=> o \in DOMAIN call.entries
      /\ get_utxo(utxo_set, o) = IF o \in DOMAIN call.entries THEN Some(call.entries[o])
                                 ELSE None

\* C25: after any add_utxo and remove_utxo calls, for every script s get_balance(s)
\* is the sum of the values of the UTXOs of the set that pay to s, and
\* get_utxos_for_script(s) returns exactly those; a removed outpoint is not in the set.
C25_BalanceIsSum ==
    call.pc \in {"new", "add_utxo", "remove_utxo"} =>
      /\ SetIsRead
      /\ call.pc = "remove_utxo" => ~has_utxo(utxo_set, call.outpoint)
      /\ \A s \in ScriptSamples :
           /\ UtxosAreThose(s)
           /\ \A overflow_checks \in BOOLEAN : BalanceIsSum(s, overflow_checks)

\* the same, for the scripts whose sum fits a u64
C25_BalanceIsSumUnlessOverflow ==
    call.pc \in {"new", "add_utxo", "remove_utxo"} =>
      /\ SetIsRead
      /\ call.pc = "remove_utxo" => ~has_utxo(utxo_set, call.outpoint)
      /\ \A s \in ScriptSamples :
           /\ UtxosAreThose(s)
           /\ \A overflow_checks \in BOOLEAN :
                IF Len(ValueOf(PayingTo(s))) <= 4 THEN BalanceIsSum(s, overflow_checks)
                ELSE IF overflow_checks
                  THEN get_balance(utxo_set, s, overflow_checks).status = "panic"
                ELSE get_balance(utxo_set, s, overflow_checks).status = "ok"

---------------------------------------------------------------------------
(* The coinbase rules of validate_block and validate_transaction            *)

TransactionCalled == call.pc = "done" /\ call.fn = "validate_transaction"

\* the header of the block of the call passes validate_header
HeaderPasses ==
    validate_header(call.validator, call.block.header, call.header_hash, call.now,
                    call.overflow_checks) = "Ok"

\* a transaction after the first is a coinbase
CoinbaseLater(transactions) ==
    \E i \in 2..Len(transactions) : Transaction_is_coinbase(transactions[i])

\* an input of the transaction is a coinbase input, and it is not the only input
MixedInputs(tx) ==
    /\ Len(tx.inputs) > 1
    /\ \E i \in 1..Len(tx.inputs) : TxInput_is_coinbase(tx.inputs[i])

\* C27, as stated: no outcome is MultipleCoinbase or InvalidCoinbaseInputCount;
\* a block (whose header passes) with a coinbase in a later position is reported
\* as CoinbaseNotFirst; a transaction with a coinbase input among several inputs
\* passes validate_transaction.
C27_CoinbaseRules ==
    /\ (BlockCalled \/ TransactionCalled)
         => call.result \notin {"MultipleCoinbase", "InvalidCoinbaseInputCount"}
    /\ (BlockCalled /\ HeaderPasses /\ CoinbaseLater(call.block.transactions))
         => call.result = "CoinbaseNotFirst"
    /\ (TransactionCalled /\ MixedInputs(call.block.transactions[1]))
         => call.result = "Ok"

\* C27, amended: no outcome is MultipleCoinbase or InvalidCoinbaseInputCount; a
\* block whose header passes and that has a coinbase in a later position is
\* reported as CoinbaseNotFirst when its first transaction is a coinbase and as
\* MissingCoinbase when it is not; a transaction with a coinbase input among
\* several inputs is no coinbase, and validate_transaction returns Ok for it
\* when it has an output and EmptyTransaction when it has none.
C27_CoinbaseRulesFirstIsCoinbase ==
    /\ (BlockCalled \/ TransactionCalled)
         => call.result \notin {"MultipleCoinbase", "InvalidCoinbaseInputCount"}
    /\ (BlockCalled /\ HeaderPasses /\ CoinbaseLater(call.block.transactions))
         => call.result = IF Transaction_is_coinbase(call.block.transactions[1])
                          THEN "CoinbaseNotFirst" ELSE "MissingCoinbase"
    /\ (TransactionCalled /\ MixedInputs(call.block.transactions[1]))
         => /\ ~Transaction_is_coinbase(call.block.transactions[1])
            /\ call.result = IF call.block.transactions[1].outputs # <<>> THEN "Ok"
                             ELSE "EmptyTransaction"

\* a block of two coinbase transactions, with a good header, is CoinbaseNotFirst
C27_Witness ==
    /\ BlockCalled /\ HeaderPasses
    /\ call.block.transactions = << TxCoinbase, TxCoinbase >>
    /\ coinbase_count(call.block.transactions) = 2
    /\ call.result = "CoinbaseNotFirst"

---------------------------------------------------------------------------
(* cli.rs: `wallet send`, and TransactionBuilder::build called directly.    *)
(* Both borrow the keystore and the UTXO set immutably; the specification   *)
(* makes two calls in a row on stores drawn from the samples and keeps what *)
(* each call was given and what it returned.                                *)

restOfSend ==
    <<keystore, cmd, stored, api, codec, target, mining, miner, gpu, call, laterVars>>

SendToSamples == { AddrB, AddrShort }
SendAmountSamples == { U64(50000), BLOCK_REWARD, U64MAX }
SendFeeSamples == { U64(0), U64(2) }

SendKeystores ==
    { Keystore_new,
      Keystore_new_address(Keystore_new, AddrA),
      Keystore_set_default(
        Keystore_new_address(Keystore_new_address(Keystore_new, AddrA), AddrB), AddrB).ks }

\* the oracle after a build: sign_transaction hashes the unsigned transaction
AfterBuild(o, result) ==
    IF result.status = "ok" THEN Intern(o, Transaction_serialize(result.unsigned)) ELSE o

\* the oracle after `wallet send`: build, then txid() of the signed transaction
AfterSend(o, result) ==
    IF result.status = "ok"
      THEN Intern(AfterBuild(o, result), Transaction_serialize(result.tx))
    ELSE o

\* the println! of total_output_value(), which adds the output values
BuildPrinted(result, overflow_checks) ==
    IF result.status # "ok" THEN result
    ELSE IF Transaction_total_output_value(result.tx, overflow_checks).panic THEN BuildPanic
    ELSE result

\* the UTXO set without the outpoints the inputs name
RECURSIVE SpendInputs(_, _)
SpendInputs(db, inputs) ==
    IF inputs = <<>> THEN db
    ELSE SpendInputs(remove_utxo(db, OutPoint_new(Head(inputs).prev_tx_hash,
                                                  Head(inputs).prev_index)),
                     Tail(inputs))

\* what `wallet send` returns: the error of default_address or of build, or Ok
\* after printing txid() and total_output_value() of the built transaction
SendOutcome(ks, db, o, to, amount, fee, overflow_checks) ==
    IF ~ks.default_address.some
      THEN BuildErr(Message("No default address. Create one with 'wallet new-address'"))
    ELSE BuildPrinted(
           TransactionBuilder_build(ks, db, o, ks.default_address.val, to, amount, fee,
                                    overflow_checks),
           overflow_checks)

SendCall(kind, from, to, amount, fee, result) ==
    [kind |-> kind, from |-> from, to |-> to, amount |-> amount, fee |-> fee,
     result |-> result]

SendIdle(overflow_checks) ==
    [pc |-> "idle", overflow_checks |-> overflow_checks, calls |-> <<>>]

SendPc == [idle |-> "once", once |-> "twice"]

\* a `wallet send` that also removes what the transaction spends from the UTXO set
WalletSendSpending ==
    /\ wallet.pc \in DOMAIN SendPc
    /\ \E to \in SendToSamples, amount \in SendAmountSamples, fee \in SendFeeSamples :
         /\ wallet' = [wallet EXCEPT
                         !.pc = SendPc[@],
                         !.calls = Append(@,
                            SendCall("send",
                                     IF keystore.default_address.some
                                       THEN keystore.default_address.val ELSE <<>>,
                                     to, amount, fee,
                                     SendOutcome(keystore, utxo_set, oracle, to, amount, fee,
                                                 wallet.overflow_checks)))]
         /\ oracle' = AfterSend(oracle, wallet'.calls[Len(wallet'.calls)].result)
         /\ utxo_set' = SpendInputs(utxo_set, wallet'.calls[Len(wallet'.calls)].result.tx.inputs)
    /\ UNCHANGED <<blockchain, restOfSend>>

\* CliHandler::handle_wallet(WalletCommands::Send { to, amount, fee })
WalletSend ==
    /\ wallet.pc \in DOMAIN SendPc
    /\ \E to \in SendToSamples, amount \in SendAmountSamples, fee \in SendFeeSamples :
         /\ wallet' = [wallet EXCEPT
                         !.pc = SendPc[@],
                         !.calls = Append(@,
                            SendCall("send",
                                     IF keystore.default_address.some
                                       THEN keystore.default_address.val ELSE <<>>,
                                     to, amount, fee,
                                     SendOutcome(keystore, utxo_set, oracle, to, amount, fee,
                                                 wallet.overflow_checks)))]
         /\ oracle' = AfterSend(oracle, wallet'.calls[Len(wallet'.calls)].result)
    /\ UNCHANGED <<blockchain, utxo_set, restOfSend>>

\* TransactionBuilder::new(&keystore, &utxo_set).build(from, to, amount, fee)
SendBuild ==
    /\ wallet.pc \in DOMAIN SendPc
    /\ \E from \in FromSamples, to \in SendToSamples, amount \in SendAmountSamples,
          fee \in SendFeeSamples :
         /\ wallet' = [wallet EXCEPT
                         !.pc = SendPc[@],
                         !.calls = Append(@,
                            SendCall("build", from, to, amount, fee,
                                     TransactionBuilder_build(keystore, utxo_set, oracle,
                                       from, to, amount, fee, wallet.overflow_checks)))]
         /\ oracle' = AfterBuild(oracle, wallet'.calls[Len(wallet'.calls)].result)
    /\ UNCHANGED <<blockchain, utxo_set, restOfSend>>

SendInit ==
    /\ blockchain = AfterInit.blockchain /\ oracle = AfterInit.oracle
    /\ cmd = CmdOff /\ stored = {}
    /\ keystore \in SendKeystores
    /\ utxo_set \in { UtxoDb(entries) : entries \in SUBSET UtxoSamples }
    /\ wallet \in { SendIdle(overflow_checks) : overflow_checks \in BOOLEAN }
    /\ api = ApiOff /\ codec = CodecIdle /\ PowVarsOff /\ call = CallOff /\ LaterVarsOff

SendNext == WalletSend \/ SendBuild

SpecSend == SendInit /\ [][SendNext]_vars

\* a call has just returned
SendReturns == wallet'.calls # wallet.calls

\* the address the last call spent from
LastFrom == wallet.calls[Len(wallet.calls)].from

\* UtxoSet::get_balance of an address of the samples
BalanceOf(db, from) ==
    get_balance(db, KeyPair_script_pubkey(KeyPairOf(from)), wallet.overflow_checks)

\* the second call was given what the first was given
SameArguments ==
    /\ wallet.pc = "twice"
    /\ wallet.calls[1].from = wallet.calls[2].from
    /\ wallet.calls[1].to = wallet.calls[2].to
    /\ wallet.calls[1].amount = wallet.calls[2].amount
    /\ wallet.calls[1].fee = wallet.calls[2].fee

SpentRemain(result) ==
    result.status = "ok" =>
      \A i \in DOMAIN result.tx.inputs :
        OutPoint_to_bytes(SpentOutPoints(result.tx)[i]) \in DOMAIN utxo_set

\* C28: build and `wallet send` leave the UTXO set and the block store as they
\* were, whether they succeed or fail: what a built transaction spends is still
\* in the UTXO set, a second build with the same arguments selects the same
\* outpoints, and the sender's balance is the same before and after
C28_SendLeavesStorage ==
    /\ [][SendReturns =>
            /\ utxo_set' = utxo_set /\ blockchain' = blockchain
            /\ LastFrom' \in FromSamples =>
                 BalanceOf(utxo_set', LastFrom') = BalanceOf(utxo_set, LastFrom')]_vars
    /\ [](\A i \in DOMAIN wallet.calls : SpentRemain(wallet.calls[i].result))
    /\ [](SameArguments =>
            /\ wallet.calls[1].result.status = wallet.calls[2].result.status
            /\ SpentOutPoints(wallet.calls[1].result.tx)
                 = SpentOutPoints(wallet.calls[2].result.tx))

\* `wallet send` after a build with the same arguments, both of which succeeded
C28_Witness ==
    /\ SameArguments
    /\ wallet.calls[1].kind = "build" /\ wallet.calls[2].kind = "send"
    /\ wallet.calls[2].result.status = "ok"
    /\ wallet.calls[2].result.tx.inputs # <<>>

---------------------------------------------------------------------------
(* network/message.rs: the wire format. A message is its type name padded  *)
(* with zeros to 12 bytes, the payload length as u32 LE, and the payload.   *)
(* The strings of a VersionMessage are not sent.                            *)

\* MessageType::to_string, as the bytes of the name
MessageType_to_string ==
    [version |-> <<118, 101, 114, 115, 105, 111, 110>>,
     verack |-> <<118, 101, 114, 97, 99, 107>>,
     ping |-> <<112, 105, 110, 103>>,
     pong |-> <<112, 111, 110, 103>>,
     inv |-> <<105, 110, 118>>,
     getdata |-> <<103, 101, 116, 100, 97, 116, 97>>,
     block |-> <<98, 108, 111, 99, 107>>,
     tx |-> <<116, 120>>,
     getblocks |-> <<103, 101, 116, 98, 108, 111, 99, 107, 115>>]

\* MessageType::from_string
MessageType_from_string(s) ==
    IF \E t \in DOMAIN MessageType_to_string : MessageType_to_string[t] = s
      THEN Some(CHOOSE t \in DOMAIN MessageType_to_string : MessageType_to_string[t] = s)
    ELSE None

\* VersionMessage::new; the clock and rand::random() are inputs
VersionMessage_new(addr_recv, addr_from, start_height, timestamp, nonce) ==
    [version |-> 1, services |-> U64(0), timestamp |-> timestamp, addr_recv |-> addr_recv,
     addr_from |-> addr_from, nonce |-> nonce, user_agent |-> "bitcoin-edu/0.1.0",
     start_height |-> start_height]

Message_Version(v) == [type |-> "version", v |-> v]
Message_Verack == [type |-> "verack"]
Message_Ping(nonce) == [type |-> "ping", nonce |-> nonce]
Message_Pong(nonce) == [type |-> "pong", nonce |-> nonce]

\* Message::serialize_payload, for the messages the nodes send
Message_serialize_payload(message) ==
    IF message.type = "version"
      THEN ToLe32(message.v.version) \o ToLe64(message.v.services)
             \o ToLe64(message.v.timestamp) \o ToLe64(message.v.nonce)
             \o ToLe32(message.v.start_height)
    ELSE IF message.type = "verack" THEN <<>>
    ELSE ToLe64(message.nonce)

\* Message::serialize
Message_serialize(message) ==
    MessageType_to_string[message.type]
      \o Repeat(0, 12 - Len(MessageType_to_string[message.type]))
      \o ToLe32(Len(Message_serialize_payload(message)))
      \o Message_serialize_payload(message)

\* str::trim_end_matches('\0')
RECURSIVE trim_end_matches_nul(_)
trim_end_matches_nul(s) ==
    IF s # <<>> /\ s[Len(s)] = 0 THEN trim_end_matches_nul(SubSeq(s, 1, Len(s) - 1)) ELSE s

MessageErr(error) == [ok |-> FALSE, error |-> error, message |-> Message_Verack]
MessageOk(message) == [ok |-> TRUE, error |-> "", message |-> message]

\* the match of Message::deserialize on the type and the payload
DeserializePayload(msg_type, payload) ==
    IF msg_type = "verack" THEN MessageOk(Message_Verack)
    ELSE IF msg_type = "ping"
      THEN IF Len(payload) < 8 THEN MessageErr("Invalid ping payload")
           ELSE MessageOk(Message_Ping(FromLe64(SubSeq(payload, 1, 8))))
    ELSE IF msg_type = "pong"
      THEN IF Len(payload) < 8 THEN MessageErr("Invalid pong payload")
           ELSE MessageOk(Message_Pong(FromLe64(SubSeq(payload, 1, 8))))
    ELSE MessageErr("Deserialization not implemented")

\* Message::deserialize; the type names of the model are ASCII, so from_utf8 is Ok
Message_deserialize(data) ==
    IF Len(data) < 16 THEN MessageErr("Message too short")
    ELSE IF ~MessageType_from_string(trim_end_matches_nul(SubSeq(data, 1, 12))).some
      THEN MessageErr("Unknown message type")
    ELSE IF Len(data) < 16 + FromLe32(SubSeq(data, 13, 16))
      THEN MessageErr("Incomplete payload")
    ELSE DeserializePayload(
           MessageType_from_string(trim_end_matches_nul(SubSeq(data, 1, 12))).val,
           SubSeq(data, 17, 16 + FromLe32(SubSeq(data, 13, 16))))

---------------------------------------------------------------------------
(* network/peer.rs and network/node.rs: one TCP connection between two      *)
(* nodes of this implementation. The connector runs Node::connect_to_peer,  *)
(* the listener has accepted the connection and runs handle_peer in a task. *)
(* A stream is the bytes written and not yet read; a side that returns      *)
(* drops its Peer, which closes its end.                                    *)

MaxHeight == 2         \* the chain heights of the two nodes are in 0..MaxHeight

restOfNet ==
    <<blockchain, utxo_set, oracle, keystore, cmd, stored, api, codec, target, mining,
      miner, gpu, wallet, call, shader, durable>>

Sides == { "connector", "listener" }
Other(side) == IF side = "connector" THEN "listener" ELSE "connector"

\* the SocketAddr each side knows the other by
AddrOf == [connector |-> "127.0.0.1:50000", listener |-> "127.0.0.1:8333"]

TimeSamples == { U64(1700000000) }
NonceSamples == { U64(0), U64MAX }

\* PeerInfo::new
PeerInfo_new(addr) ==
    [addr |-> addr, version |-> 0, services |-> U64(0), start_height |-> 0, user_agent |-> ""]

\* the bytes of the first message of a stream: the 16-byte header and the payload
\* its length field announces
FirstMessage(bytes) == SubSeq(bytes, 1, 16 + FromLe32(SubSeq(bytes, 13, 16)))

\* read_exact can fill the header and the payload
Readable(bytes) ==
    Len(bytes) >= 16 /\ Len(bytes) >= 16 + FromLe32(SubSeq(bytes, 13, 16))

\* Peer::receive_message on the bytes that have arrived; at the end of a closed
\* stream read_exact fails
Peer_receive_message(bytes) ==
    IF ~Readable(bytes) THEN MessageErr("Failed to read header")
    ELSE Message_deserialize(FirstMessage(bytes))

\* the message Peer::handshake sends at this point
HandshakeMessage(side, timestamp, nonce) ==
    IF net.task[side].pc = "send_version"
      THEN Message_Version(VersionMessage_new(AddrOf[Other(side)], "0.0.0.0:0",
                                              net.our_height[side], timestamp, nonce))
    ELSE Message_Verack

\* a side that returned: its result, and its end of the stream closed
Returned(task, result) == [task EXCEPT !.pc = "returned", !.result = result]

\* Peer::handshake after a message arrived: Version then Verack are expected;
\* after the Verack the handshake is Ok and the node pushes peer.info
AfterReceive(task, received) ==
    IF ~received.ok THEN Returned(task, received.error)
    ELSE IF task.pc = "receive_version"
      THEN IF received.message.type = "version"
             THEN [task EXCEPT !.pc = "send_verack",
                               !.info.version = received.message.v.version,
                               !.info.services = received.message.v.services,
                               !.info.start_height = received.message.v.start_height,
                               !.info.user_agent = received.message.v.user_agent]
           ELSE Returned(task, "Expected version message")
    ELSE IF received.message.type = "verack"
      THEN [task EXCEPT !.pc = "connected", !.result = "Ok"]
    ELSE Returned(task, "Expected verack message")

\* Peer::send_message of the handshake: Version, then Verack
NetSend(side) ==
    /\ net.pc = "net"
    /\ net.task[side].pc \in { "send_version", "send_verack" }
    /\ \E timestamp \in TimeSamples, nonce \in NonceSamples,
          sent \in IF net.task[Other(side)].pc = "returned" THEN BOOLEAN ELSE { TRUE } :
         net' = IF sent
                  THEN [net EXCEPT
                          !.stream[side] = @ \o Message_serialize(
                                                  HandshakeMessage(side, timestamp, nonce)),
                          !.task[side].pc = IF @ = "send_version" THEN "receive_version"
                                            ELSE "receive_verack"]
                ELSE [net EXCEPT !.task[side] = Returned(@, "Failed to send message")]
    /\ UNCHANGED restOfNet

\* Peer::receive_message of the handshake and what follows it, up to the next
\* send or the return
NetReceive(side) ==
    /\ net.pc = "net"
    /\ net.task[side].pc \in { "receive_version", "receive_verack" }
    /\ Readable(net.stream[Other(side)]) \/ net.task[Other(side)].pc = "returned"
    /\ net' = [net EXCEPT
                 !.task[side] = AfterReceive(@, Peer_receive_message(net.stream[Other(side)])),
                 !.stream[Other(side)] =
                    IF Readable(@) THEN SubSeq(@, Len(FirstMessage(@)) + 1, Len(@)) ELSE @,
                 !.peers[side] =
                    IF AfterReceive(net.task[side],
                                    Peer_receive_message(net.stream[Other(side)])).pc
                         = "connected"
                      THEN Append(@, AfterReceive(net.task[side],
                                       Peer_receive_message(net.stream[Other(side)])).info)
                    ELSE @]
    /\ UNCHANGED restOfNet

NetTask(side) == [pc |-> "send_version", info |-> PeerInfo_new(AddrOf[Other(side)]),
                  result |-> ""]

NetInit ==
    /\ CliVarsOff /\ api = ApiOff /\ codec = CodecIdle /\ PowVarsOff /\ wallet = WalletOff
    /\ call = CallOff /\ shader = ShaderOff /\ durable = DurableOff
    /\ net \in { [pc |-> "net", our_height |-> our_height,
                  task |-> [side \in Sides |-> NetTask(side)],
                  stream |-> [side \in Sides |-> <<>>],
                  peers |-> [side \in Sides |-> <<>>]] :
                 our_height \in [Sides -> 0..MaxHeight] }

NetNext == \E side \in Sides : NetSend(side) \/ NetReceive(side)

SpecNet == NetInit /\ [][NetNext]_vars

\* every step that can be taken is taken: both tasks are polled by their runtimes
SpecNetFair == SpecNet /\ WF_vars(NetNext)

Connected(side) ==
    /\ net.task[side].pc = "connected"
    /\ \E i \in DOMAIN net.peers[side] : net.peers[side][i].addr = AddrOf[Other(side)]

\* C29: when connect_to_peer on one node meets listen / handle_peer on the other,
\* the handshake eventually completes on both sides: handshake returns Ok and
\* each node has the other in its peer list
C29_HandshakeCompletes == <>(Connected("connector") /\ Connected("listener"))

\* what the code does instead: each side sends its Version, fails to decode the
\* Version it receives, and returns with an empty peer list
C29_HandshakeNeverCompletes ==
    /\ [](\A side \in Sides : ~Connected(side) /\ net.peers[side] = <<>>)
    /\ <>(\A side \in Sides :
            net.task[side].pc = "returned"
            /\ net.task[side].result = "Deserialization not implemented")

---------------------------------------------------------------------------
(* network/node.rs: Node::listen and the handle_peer tasks it spawns, which *)
(* share the peer list behind an RwLock. Every await of handle_peer is a    *)
(* step. Peer::handshake is called, not defined, by handle_peer: its result *)
(* is an input here, and so are the bytes the remote side sends and the     *)
(* result of each write. SpecNet computes the handshake against a node of   *)
(* this implementation.                                                     *)

MaxPeers == 2          \* connections the listener accepts

PeerAddrs == { "127.0.0.1:50000", "127.0.0.1:50001" }

HandshakeResults == { "Ok", "Expected version message" }

PingNonces == { U64(7) }

\* what the remote side can have written when the handler reads: a Ping, a Pong,
\* a Verack, a Version, or nothing before it closed
Arrivals ==
    { Message_serialize(Message_Ping(nonce)) : nonce \in PingNonces }
      \cup { Message_serialize(Message_Pong(nonce)) : nonce \in PingNonces }
      \cup { Message_serialize(Message_Verack),
             Message_serialize(Message_Version(
               VersionMessage_new("127.0.0.1:8333", "0.0.0.0:0", 0, U64(1700000000), U64(0)))),
             <<>> }

HandlerTask(addr) ==
    [addr |-> addr, pc |-> "handshake", info |-> PeerInfo_new(addr), result |-> "",
     nonce |-> U64(0)]

\* Vec::retain(|p| p.addr != addr)
RECURSIVE retain_other(_, _)
retain_other(peers, addr) ==
    IF peers = <<>> THEN <<>>
    ELSE IF Head(peers).addr # addr THEN <<Head(peers)>> \o retain_other(Tail(peers), addr)
    ELSE retain_other(Tail(peers), addr)

\* the message loop after receive_message returned: a Ping is answered, an Err
\* breaks the loop, anything else is logged
AfterLoopReceive(task, received) ==
    IF ~received.ok THEN [task EXCEPT !.pc = "remove", !.result = received.error]
    ELSE IF received.message.type = "ping"
      THEN [task EXCEPT !.pc = "pong", !.nonce = received.message.nonce]
    ELSE task

\* Node::listen: accept a connection and spawn handle_peer for it
HandlerAccept ==
    /\ net.pc = "node" /\ Len(net.tasks) < MaxPeers
    /\ \E addr \in PeerAddrs :
         net' = [net EXCEPT !.tasks = Append(@, HandlerTask(addr))]
    /\ UNCHANGED restOfNet

\* handle_peer: get_chain_height and peer.handshake(our_height).await?
HandlerHandshake(i) ==
    /\ net.pc = "node" /\ net.tasks[i].pc = "handshake"
    /\ \E result \in HandshakeResults :
         net' = [net EXCEPT !.tasks[i].pc = IF result = "Ok" THEN "push" ELSE "returned",
                            !.tasks[i].result = result]
    /\ UNCHANGED restOfNet

\* handle_peer: peers.write().await.push(peer.info.clone())
HandlerPush(i) ==
    /\ net.pc = "node" /\ net.tasks[i].pc = "push"
    /\ net' = [net EXCEPT !.peers = Append(@, net.tasks[i].info), !.tasks[i].pc = "loop"]
    /\ UNCHANGED restOfNet

\* handle_peer: peer.receive_message().await and the match on it
HandlerReceive(i) ==
    /\ net.pc = "node" /\ net.tasks[i].pc = "loop"
    /\ \E bytes \in Arrivals :
         net' = [net EXCEPT !.tasks[i] = AfterLoopReceive(@, Peer_receive_message(bytes))]
    /\ UNCHANGED restOfNet

\* handle_peer: peer.send_message(&Message::Pong(nonce)).await?
HandlerPong(i) ==
    /\ net.pc = "node" /\ net.tasks[i].pc = "pong"
    /\ \E sent \in BOOLEAN :
         net' = IF sent THEN [net EXCEPT !.tasks[i].pc = "loop"]
                ELSE [net EXCEPT !.tasks[i].pc = "returned",
                                 !.tasks[i].result = "Failed to send message"]
    /\ UNCHANGED restOfNet

\* handle_peer: peers.write().await.retain(|p| p.addr != addr); Ok(())
HandlerRemove(i) ==
    /\ net.pc = "node" /\ net.tasks[i].pc = "remove"
    /\ net' = [net EXCEPT !.peers = retain_other(@, net.tasks[i].addr),
                          !.tasks[i].pc = "returned", !.tasks[i].result = "Ok"]
    /\ UNCHANGED restOfNet

HandlerInit ==
    /\ CliVarsOff /\ api = ApiOff /\ codec = CodecIdle /\ PowVarsOff /\ wallet = WalletOff
    /\ call = CallOff /\ shader = ShaderOff /\ durable = DurableOff
    /\ net = [pc |-> "node", peers |-> <<>>, tasks |-> <<>>]

HandlerNext ==
    \/ HandlerAccept
    \/ \E i \in DOMAIN net.tasks : HandlerHandshake(i)
    \/ \E i \in DOMAIN net.tasks : HandlerPush(i)
    \/ \E i \in DOMAIN net.tasks : HandlerReceive(i)
    \/ \E i \in DOMAIN net.tasks : HandlerPong(i)
    \/ \E i \in DOMAIN net.tasks : HandlerRemove(i)

SpecHandler == HandlerInit /\ [][HandlerNext]_vars

\* the handler is past its push and has not returned
InLoop(task) == task.pc \in { "loop", "pong", "remove" }

Listed(peers, addr) == \E k \in DOMAIN peers : peers[k].addr = addr

\* handler i returns in this step, after it added its peer
ReturnsAfterPush(i) == InLoop(net.tasks[i]) /\ net'.tasks[i].pc = "returned"

\* an entry is pushed in this step
Pushes == Len(net'.peers) > Len(net.peers)

C30_RemovedOnReceiveError ==
    /\ [][Pushes => \E i \in DOMAIN net.tasks :
                      /\ net.tasks[i].pc = "push" /\ net.tasks[i].result = "Ok"
                      /\ net'.tasks[i].pc = "loop"]_vars
    /\ [][\A i \in DOMAIN net.tasks :
            ReturnsAfterPush(i) =>
              IF net.tasks[i].pc = "pong" THEN net'.peers = net.peers
              ELSE ~Listed(net'.peers, net.tasks[i].addr)]_vars

====
